---- MODULE Spec2Model ----
(***************************************************************************)
(* The agent-execution core of lucyonegit/agent-code:                      *)
(*   - ReActExecutor.run / streamIteration (the bounded ReAct loop),       *)
(*   - PlannerExecutor.run (the outer plan / execute / replan loop).       *)
(* Strings are sequences of tokens: the empty string is <<>>, template     *)
(* literals are concatenations (\o) of fixed tokens and their holes.       *)
(***************************************************************************)
EXTENDS Integers, Sequences, FiniteSets, TLC

\* ------------------------------------------------------------------ bounds
\* largest maxIterations an explored configuration sets explicitly
MaxIterations == 2
\* most tool calls the model proposes in one turn
MaxCalls == 2
\* most steps of an initial plan
MaxSteps == 3
\* most steps a replan response supplies
MaxUpdatedSteps == 2
\* largest maxRePlanAttempts an explored configuration sets explicitly
MaxRePlanAttempts == 1
\* latest value of Date.now() an explored run reads (the earliest is 0)
MaxNow == 1

\* ------------------------------------------------------- program constants
\* config.maxIterations ?? 10
DefaultMaxIterations == 10
\* config.maxIterationsPerStep ?? 10
DefaultMaxIterationsPerStep == 10
\* config.maxRePlanAttempts ?? 3
DefaultMaxRePlanAttempts == 3

\* defaultFinalAnswerTool.name
FinalAnswerToolName == "give_final_answer"

VARIABLES
    config,               \* this.config of the ReActExecutor
    tools,                \* input.tools (names, in order)
    input,                \* input.input and input.context
    stub,                 \* which model the run talks to
    pc,                   \* position of run / streamIteration
    iteration,            \* the for loop's counter
    completedIterations,
    messages,             \* the conversation
    iterationHistory,
    events,               \* events handed to onMessage, in order
    turn,                 \* locals of the current turn
    result,               \* what run resolved to
    invocations,          \* llm.invoke / llm.stream calls made so far
    executions,           \* tool.execute calls made so far
    now,                  \* Date.now() as last read; the clock never goes back
    cancelRequested,      \* the caller has asked for the run to be cancelled
    plannerConfig,        \* this.config of the PlannerExecutor
    plannerTools,         \* the tools PlannerExecutor.run is given
    ppc,                  \* position of PlannerExecutor.run
    plan,                 \* the plan: steps and history
    currentStep,          \* position in plan.steps of the step being executed
    rePlanAttempts,
    plannerEvents,        \* what the planner hands to onMessage and onPlanUpdate
    plannerError,         \* the error the planner's catch block caught
    plannerResult,        \* what PlannerExecutor.run resolved to
    parserPc,             \* position of ReActParser.parse
    output,               \* the raw model output ReActParser.parse is given
    parseResult,          \* what ReActParser.parse returned
    observer,             \* the event types at which the caller's onMessage throws
    apc,                  \* position of CodingAgent.run
    callbacks,            \* the calls the planner's run made to onMessage and onPlanUpdate
    progress,             \* events handed to onProgress, in order of the calls
    inflight,             \* calls of onProgress that have not returned
    results,              \* which intermediate results CodingAgent.run has stored
    extracting,           \* the calls of extractAndStoreResults that are under way
    plannerOutcome,       \* how the planner's run ended
    agentResult           \* what CodingAgent.run resolved to

\* what a ReActExecutor and one call of its run are given, and what the
\* caller asks of the run while it is under way
setup == <<config, tools, input, stub, cancelRequested>>

engineVars == <<setup, now, pc, iteration, completedIterations, messages,
                iterationHistory, events, turn, result, invocations, executions>>

plannerVars == <<plannerConfig, plannerTools, ppc, plan, currentStep,
                 rePlanAttempts, plannerEvents, plannerError, plannerResult>>

parserVars == <<parserPc, output, parseResult>>

\* the components that stand beside the executor and the planner
agentVars == <<apc, callbacks, progress, inflight, results, extracting,
               plannerOutcome, agentResult>>

componentVars == <<parserVars, observer, agentVars>>

vars == <<engineVars, plannerVars, componentVars>>

\* ----------------------------------------------------------------- strings
EmptyString == <<>>

RECURSIVE Join(_, _)
\* Array.prototype.join
Join(strs, sep) ==
    IF strs = <<>> THEN <<>>
    ELSE IF Len(strs) = 1 THEN Head(strs)
    ELSE Head(strs) \o <<sep>> \o Join(Tail(strs), sep)

\* `第 ${iteration} 次迭代失败: ${errorMessage}`
IterationFailedMessage(i, errorMessage) ==
    <<"iteration", ToString(i), "failed:">> \o errorMessage

\* `发生错误: ${errorMessage}\n请继续尝试。`
CorrectiveMessage(errorMessage) ==
    <<"error_occurred:">> \o errorMessage \o <<"please_continue">>

\* a fallback answer that leaves the history out
FallbackAnswerWithoutHistory(maxIterations, history) ==
    <<"max_iterations_reached", ToString(maxIterations)>>

\* `已达到最大迭代次数 (${maxIterations})。\n\n${iterationHistory.join('\n\n')}`
FallbackAnswer(maxIterations, history) ==
    <<"max_iterations_reached", ToString(maxIterations)>> \o Join(history, "|")

\* `动作: ${call.name}\n观察: ${observation}`
HistoryEntry(name, observation) ==
    <<"action:", name, "observation:">> \o observation

\* `工具执行失败: ${error.message}`
ToolFailedObservation(errorMessage) == <<"tool_failed:">> \o errorMessage

\* `工具 "${call.name}" 未找到` (buffered) and the same followed by
\* `可用工具: ${allTools.map(t => t.name).join(', ')}` (streaming)
ToolNotFoundObservation(name, allTools, streaming) ==
    IF streaming
    THEN <<"tool_not_found:", name, "available:">> \o allTools
    ELSE <<"tool_not_found:", name>>


\* ------------------------------------------------------- the model's answers
\* Tool arguments are objects written as the sequence of their "key=value"
\* members; the text of an object is "{" members "}".
CallShapes ==
    { [name |-> FinalAnswerToolName, args |-> <<"answer=A">>],
      [name |-> FinalAnswerToolName, args |-> <<"answer=">>],
      [name |-> "weather",           args |-> <<"city=X">>],
      [name |-> "calculator",        args |-> <<"n=1">>] }

\* sequences of at most n elements of S
SeqUpTo(S, n) == UNION { [1..k -> S] : k \in 0..n }

\* the id the model gives the call at position i of the turn's list, if any
GivenId(t, i, withIds) ==
    IF withIds THEN <<"id", ToString(t), ToString(i)>> ELSE <<>>

WithIds(shapes, t, withIds) ==
    [i \in 1..Len(shapes) |->
        [id |-> GivenId(t, i, withIds), name |-> shapes[i].name,
         args |-> shapes[i].args]]

Contents == { <<>>, <<"T", "U">> }

\* response.content and response.tool_calls of any model, in turn t
AnyResponses(t, withIds) ==
    { [content |-> c, tool_calls |-> WithIds(shapes, t, withIds)] :
        c \in Contents, shapes \in SeqUpTo(CallShapes, MaxCalls) }

\* The model stubs: "any" answers anything, with an id for every call, and may
\* fail; "any_no_ids" does the same and never gives an id; "missing_tool" always
\* requests a tool that is not registered; "final_text" always answers with
\* text and no tool calls; "always_fails" fails every invocation; "replay"
\* delivers in every turn the same two calls without ids, as the same chunk
\* sequence when it streams; "garbled" streams in every turn a complete call
\* and a call whose arguments text is cut short; "step", the
\* model that executes the steps of a plan, proposes one call per turn (the
\* final answer or a tool).
Stubs == {"any", "any_no_ids", "missing_tool", "final_text", "always_fails",
          "replay", "garbled"}

Responses(s, t) ==
    CASE s = "any" -> AnyResponses(t, TRUE)
      [] s = "any_no_ids" -> AnyResponses(t, FALSE)
      [] s = "missing_tool" ->
            { [content |-> <<>>,
               tool_calls |-> WithIds(<<[name |-> "calculator", args |-> <<"n=1">>]>>,
                                      t, TRUE)] }
      [] s = "final_text" -> { [content |-> <<"T", "U">>, tool_calls |-> <<>>] }
      [] s = "replay" ->
            { [content |-> <<>>,
               tool_calls |-> WithIds(<<[name |-> "weather", args |-> <<"city=X">>],
                                        [name |-> "calculator", args |-> <<"n=1">>]>>,
                                      t, FALSE)] }
      [] s = "step" ->
            { [content |-> <<>>, tool_calls |-> WithIds(<<shape>>, t, TRUE)] :
                shape \in CallShapes \ {[name |-> FinalAnswerToolName, args |-> <<"answer=">>]} }
      [] OTHER -> {}

\* error instanceof Error ? error.message : '未知错误', for what the model throws
ModelErrors(s) ==
    IF s \in {"any", "any_no_ids", "always_fails"} THEN { <<"model_error">> } ELSE {}

\* what tool.execute does: returns an observation, or throws
ToolOutcomes(name) ==
    IF name = FinalAnswerToolName
    THEN { [throws |-> FALSE, text |-> <<>>] }
    ELSE { [throws |-> FALSE, text |-> <<"ok">>],
           [throws |-> FALSE, text |-> <<>>],
           [throws |-> TRUE,  text |-> <<"tool_error">>] }


\* ---------------------------------------------- streaming and accumulation
\* the text the model streams for an arguments object
ArgsText(args) == <<"{">> \o args \o <<"}">>

\* JSON.parse of an accumulated arguments text
ParseArgs(text) ==
    IF /\ Len(text) >= 2
       /\ text[1] = "{"
       /\ text[Len(text)] = "}"
       /\ \A j \in 2..(Len(text) - 1) : text[j] \notin {"{", "}"}
    THEN [ok |-> TRUE, value |-> SubSeq(text, 2, Len(text) - 1)]
    ELSE [ok |-> FALSE, value |-> <<>>]

\* one ToolCallChunk of the call at position i: all of it, its head (id, name,
\* the first fragment of the arguments) or its tail (the rest of the arguments)
ToolCallChunkOf(call, i, part) ==
    CASE part = "whole" ->
            [index |-> i - 1, id |-> call.id, name |-> call.name,
             args |-> ArgsText(call.args)]
      [] part = "head" ->
            [index |-> i - 1, id |-> call.id, name |-> call.name, args |-> <<"{">>]
      [] OTHER ->
            [index |-> i - 1, id |-> <<>>, name |-> "", args |-> call.args \o <<"}">>]

StreamChunkOf(text, toolChunks) == [content |-> text, tool_call_chunks |-> toolChunks]

Chunkings == {"whole", "split", "interleaved"}

\* the chunk sequence that delivers response r: one chunk per piece of text,
\* then the tool calls, whole in one chunk, or each split in two, one call
\* after the other, or interleaved: the heads with the last call first, then
\* the tails with the first call first
StreamOf(r, chunking) ==
    LET n == Len(r.tool_calls)
        texts == [j \in 1..Len(r.content) |-> StreamChunkOf(<<r.content[j]>>, <<>>)]
        one(i, part) == StreamChunkOf(<<>>, <<ToolCallChunkOf(r.tool_calls[i], i, part)>>)
        calls ==
            CASE n = 0 -> <<>>
              [] chunking = "whole" ->
                    <<StreamChunkOf(<<>>,
                        [i \in 1..n |-> ToolCallChunkOf(r.tool_calls[i], i, "whole")])>>
              [] chunking = "split" ->
                    [j \in 1..(2 * n) |->
                        IF j % 2 = 1 THEN one((j + 1) \div 2, "head")
                        ELSE one(j \div 2, "tail")]
              [] OTHER ->
                    [j \in 1..(2 * n) |->
                        IF j <= n THEN one(n + 1 - j, "head") ELSE one(j - n, "tail")]
    IN  texts \o calls

\* one chunk with a complete call to "weather" at index 0 and, at index 1, the
\* head of a second call whose arguments never get their closing brace
GarbledStream(t) ==
    LET calls == WithIds(<<[name |-> "weather", args |-> <<"city=X">>],
                           [name |-> "weather", args |-> <<"city=X">>]>>, t, TRUE)
    IN  <<StreamChunkOf(<<>>, <<ToolCallChunkOf(calls[1], 1, "whole"),
                                ToolCallChunkOf(calls[2], 2, "head")>>)>>

\* the "step" model delivers every call whole, the "replay" model always
\* interleaves
Streams(s, t) ==
    IF s = "garbled" THEN { GarbledStream(t) }
    ELSE { StreamOf(r, k) : r \in Responses(s, t),
                            k \in CASE s = "step" -> {"whole"}
                                     [] s = "replay" -> {"interleaved"}
                                     [] OTHER -> Chunkings }

\* a merge that keeps the calls in the order in which their first chunk arrived
MergeToolCallInArrivalOrder(acc, c) ==
    IF \E j \in 1..Len(acc) : acc[j].index = c.index
    THEN [j \in 1..Len(acc) |->
            IF acc[j].index = c.index
            THEN [index |-> c.index,
                  id   |-> IF acc[j].id = <<>> THEN c.id ELSE acc[j].id,
                  name |-> IF acc[j].name = "" THEN c.name ELSE acc[j].name,
                  args |-> acc[j].args \o c.args]
            ELSE acc[j]]
    ELSE Append(acc, c)

\* a merge that appends every later fragment to the call accumulated last,
\* whatever its index
MergeToolCallIgnoringIndex(acc, c) ==
    IF \E j \in 1..Len(acc) : acc[j].index = c.index
    THEN [j \in 1..Len(acc) |->
            IF j = Len(acc)
            THEN [index |-> acc[j].index,
                  id   |-> IF acc[j].id = <<>> THEN c.id ELSE acc[j].id,
                  name |-> IF acc[j].name = "" THEN c.name ELSE acc[j].name,
                  args |-> acc[j].args \o c.args]
            ELSE acc[j]]
    ELSE Append(acc, c)

\* mergeToolCalls, for one chunk: chunks of one index are one call; the
\* arguments fragments are concatenated in arrival order, id and name are
\* taken the first time they appear; the calls are kept in index order
MergeToolCall(acc, c) ==
    IF \E j \in 1..Len(acc) : acc[j].index = c.index
    THEN [j \in 1..Len(acc) |->
            IF acc[j].index = c.index
            THEN [index |-> c.index,
                  id   |-> IF acc[j].id = <<>> THEN c.id ELSE acc[j].id,
                  name |-> IF acc[j].name = "" THEN c.name ELSE acc[j].name,
                  args |-> acc[j].args \o c.args]
            ELSE acc[j]]
    ELSE LET before == SelectSeq(acc, LAMBDA a : a.index < c.index)
             after  == SelectSeq(acc, LAMBDA a : a.index > c.index)
         IN  before \o <<c>> \o after

RECURSIVE mergeToolCalls(_, _)
mergeToolCalls(acc, chunks) ==
    IF chunks = <<>> THEN acc
    ELSE mergeToolCalls(MergeToolCall(acc, Head(chunks)), Tail(chunks))

\* the id synthesized for an accumulated call that never got one
SynthesizedId(t, index) == <<"call", ToString(t), ToString(index)>>

\* every accumulated arguments text parses
ArgumentsParse(acc) == \A j \in 1..Len(acc) : ParseArgs(acc[j].args).ok

\* toLangChainToolCalls: the accumulated calls with their arguments parsed
toLangChainToolCalls(acc, t) ==
    [j \in 1..Len(acc) |->
        [id   |-> IF acc[j].id = <<>> THEN SynthesizedId(t, acc[j].index) ELSE acc[j].id,
         name |-> acc[j].name,
         args |-> ParseArgs(acc[j].args).value]]


\* ------------------------------------------------------ messages and events
SystemMessage(content) ==
    [role |-> "system", content |-> content, tool_calls |-> <<>>, tool_call_id |-> <<>>]
HumanMessage(content) ==
    [role |-> "human", content |-> content, tool_calls |-> <<>>, tool_call_id |-> <<>>]
AIMessage(content, toolCalls) ==
    [role |-> "ai", content |-> content, tool_calls |-> toolCalls, tool_call_id |-> <<>>]
ToolMessage(toolCallId, content) ==
    [role |-> "tool", content |-> content, tool_calls |-> <<>>, tool_call_id |-> toolCallId]

ThoughtEvent(thoughtId, chunk, isComplete) ==
    [type |-> "thought", thoughtId |-> thoughtId, chunk |-> chunk, isComplete |-> isComplete]
ToolCallEvent(toolCallId, toolName, args) ==
    [type |-> "tool_call", toolCallId |-> toolCallId, toolName |-> toolName, args |-> args]
ToolCallResultEvent(toolCallId, toolName, observation, success) ==
    [type |-> "tool_call_result", toolCallId |-> toolCallId, toolName |-> toolName,
     result |-> observation, success |-> success]
ErrorEvent(message) == [type |-> "error", message |-> message]
FinalResultEvent(content, iterationCount) ==
    [type |-> "final_result", content |-> content, iterationCount |-> iterationCount]

\* `thought_${Date.now()}_${iteration}`
IterationId(i) == <<"thought", ToString(i)>>

\* emitEvent: the handler is awaited with the event
emitEvent(log, event) == Append(log, event)

\* ----------------------------------------------------------- ReActExecutor
\* the constructor: maxIterations ?? 10, streaming ?? false
ReActExecutor(cfg) ==
    [maxIterations |-> IF "maxIterations" \in DOMAIN cfg THEN cfg.maxIterations
                       ELSE DefaultMaxIterations,
     streaming     |-> IF "streaming" \in DOMAIN cfg THEN cfg.streaming ELSE FALSE]

\* allTools = [...tools, this.config.finalAnswerTool]
AllTools(ts) == Append(ts, FinalAnswerToolName)

\* a lookup that finds every name
ToolFoundAlways(ts, name) == TRUE

\* allTools.find(t => t.name === call.name) finds a tool
ToolFound(ts, name) == \E j \in 1..Len(AllTools(ts)) : AllTools(ts)[j] = name

\* a lookup that sees the final-answer call only at the head of the list
FinalAnswerCallFirstOnly(toolCalls) ==
    IF Len(toolCalls) > 0 /\ toolCalls[1].name = FinalAnswerToolName THEN 1 ELSE 0

\* tool_calls.find(call => call.name === finalAnswerTool.name): the position of
\* the first such call, 0 when there is none
FinalAnswerCall(toolCalls) ==
    IF \E j \in 1..Len(toolCalls) : toolCalls[j].name = FinalAnswerToolName
    THEN CHOOSE j \in 1..Len(toolCalls) :
            /\ toolCalls[j].name = FinalAnswerToolName
            /\ \A k \in 1..(j - 1) : toolCalls[k].name # FinalAnswerToolName
    ELSE 0

\* (finalAnswerCall.args as { answer?: string }).answer: the text of the
\* member "answer", the empty text when it is "" or missing
AnswerOf(args) ==
    IF \E j \in 1..Len(args) : args[j] = "answer=A" THEN <<"A">> ELSE <<>>

\* .answer || content
ExtractAnswer(call, content) ==
    IF AnswerOf(call.args) # <<>> THEN AnswerOf(call.args) ELSE content

\* call.id || `call_${Date.now()}`
ToolCallId(call, t) == IF call.id # <<>> THEN call.id ELSE <<"call", ToString(t)>>

\* what Date.now() may return when it is read now
Times == now..MaxNow

\* a loop that runs one iteration too many
LoopConditionOffByOne(i, maxIterations) == i <= maxIterations + 1

\* the for loop's condition
LoopCondition(i, maxIterations) == i <= maxIterations

\* a loop body without the try block: the throw leaves run
TryCatchMissing == "thrown"

\* where a throw inside the loop body's try block continues
TryCatch == "catch"

\* a loop without the guard
EarlyStopNever(streaming, last) == FALSE

\* a guard that breaks whenever the last message carries no tool calls
EarlyStopOnNoToolCalls(streaming, last) == Len(last.tool_calls) = 0

\* line 287: the turn left neither text nor tool calls in the last message
EarlyStop(streaming, last) ==
    /\ ~streaming
    /\ last.content = <<>>
    /\ Len(last.tool_calls) = 0

\* defaultUserMessageTemplate
defaultUserMessageTemplate(userInput, toolDescriptions, context) ==
    <<"task:">> \o userInput \o <<"tools:">> \o toolDescriptions
        \o (IF context # <<>> THEN <<"context:">> \o context ELSE <<>>)

NoTurn ==
    [content |-> <<>>, tool_calls |-> <<>>, callIndex |-> 0, stream |-> <<>>,
     accumulatedToolCalls |-> <<>>, toolCallId |-> <<>>, observation |-> <<>>,
     success |-> TRUE, answer |-> <<>>, errorMessage |-> <<>>]

\* no PlannerExecutor: the ReActExecutor is used on its own
NoPlanner ==
    /\ plannerConfig = [maxIterationsPerStep |-> 0, maxRePlanAttempts |-> 0]
    /\ plannerTools = <<>>
    /\ ppc = "none"
    /\ plan = [steps |-> <<>>, history |-> <<>>]
    /\ currentStep = 0
    /\ rePlanAttempts = 0
    /\ plannerEvents = <<>>
    /\ plannerError = <<>>
    /\ plannerResult = [success |-> FALSE, response |-> <<>>,
                        plan |-> [steps |-> <<>>, history |-> <<>>]]

\* no ReActParser: nothing is parsed
NoParser ==
    /\ parserPc = "none"
    /\ output = [form |-> "none"]
    /\ parseResult = <<>>

\* no CodingAgent
NoCodingAgent ==
    /\ apc = "none"
    /\ callbacks = <<>>
    /\ progress = <<>>
    /\ inflight = 0
    /\ results = [bddFeatures |-> FALSE, architecture |-> FALSE, codeResult |-> FALSE]
    /\ extracting = <<>>
    /\ plannerOutcome = "none"
    /\ agentResult = <<>>

\* no component beside the executor and the planner is in use, and the
\* caller's onMessage never throws
NoComponents == NoParser /\ observer = {} /\ NoCodingAgent

\* the executor is constructed and run has not been called
Init ==
    /\ \E cfg \in [maxIterations : 0..MaxIterations, streaming : BOOLEAN]
                    \cup [streaming : BOOLEAN] :
       \E s \in Stubs :
          /\ ("maxIterations" \notin DOMAIN cfg => s \notin {"any", "any_no_ids", "replay", "garbled"})
          /\ (s = "garbled" => cfg.streaming)
          /\ config = ReActExecutor(cfg)
          /\ stub = s
    /\ tools = <<"weather">>
    /\ input = [input |-> <<"ask">>, context |-> <<>>]
    /\ pc = "constructed"
    /\ iteration = 0
    /\ completedIterations = 0
    /\ messages = <<>>
    /\ iterationHistory = <<>>
    /\ events = <<>>
    /\ turn = NoTurn
    /\ result = <<>>
    /\ invocations = 0
    /\ executions = <<>>
    /\ now = 0
    /\ cancelRequested = FALSE
    /\ NoPlanner
    /\ NoComponents

\* run, up to the loop: the conversation starts with the system message and
\* the user message built from the input
Run ==
    /\ pc = "constructed"
    /\ messages' = <<SystemMessage(<<"system_prompt">>),
                     HumanMessage(defaultUserMessageTemplate(input.input, tools,
                                                             input.context))>>
    /\ iterationHistory' = <<>>
    /\ completedIterations' = 0
    /\ iteration' = 1
    /\ pc' = "loop"
    /\ UNCHANGED <<plannerVars, setup, now, events, turn, result, invocations, executions>>
    /\ UNCHANGED componentVars

\* the top of the for loop
LoopTop ==
    /\ pc = "loop"
    /\ IF LoopCondition(iteration, config.maxIterations)
       THEN /\ completedIterations' = iteration
            /\ pc' = IF config.streaming THEN "stream_open" ELSE "invoke"
       ELSE /\ pc' = "fallback"
            /\ UNCHANGED completedIterations
    /\ turn' = NoTurn
    /\ UNCHANGED <<plannerVars, setup, now, iteration, messages, iterationHistory,
                   events, result, invocations, executions>>
    /\ UNCHANGED componentVars

\* where a turn goes once the assistant message is in the conversation
AfterAssistantMessage(toolCalls) ==
    IF Len(toolCalls) > 0
    THEN IF FinalAnswerCall(toolCalls) # 0 THEN "final_answer" ELSE "dispatch"
    ELSE "no_tool_calls"

\* buffered mode: llm.invoke throws
InvokeFails ==
    /\ pc = "invoke"
    /\ \E e \in ModelErrors(stub) :
          turn' = [turn EXCEPT !.errorMessage = e]
    /\ invocations' = invocations + 1
    /\ pc' = TryCatch
    /\ UNCHANGED <<plannerVars, setup, now, iteration, completedIterations, messages,
                   iterationHistory, events, result, executions>>
    /\ UNCHANGED componentVars

\* buffered mode: llm.invoke returns; the text is emitted as a thought, the
\* response joins the conversation, and a final-answer call is looked for
Invoke ==
    /\ pc = "invoke"
    /\ \E r \in Responses(stub, iteration) :
          /\ events' = IF r.content # <<>>
                       THEN emitEvent(events, ThoughtEvent(IterationId(iteration), r.content, TRUE))
                       ELSE events
          /\ messages' = Append(messages, AIMessage(r.content, r.tool_calls))
          /\ turn' = [turn EXCEPT
                        !.content = r.content,
                        !.tool_calls = r.tool_calls,
                        !.callIndex = 1,
                        !.answer = IF FinalAnswerCall(r.tool_calls) # 0
                                   THEN ExtractAnswer(r.tool_calls[FinalAnswerCall(r.tool_calls)],
                                                      r.content)
                                   ELSE <<>>]
          /\ pc' = IF AfterAssistantMessage(r.tool_calls) = "no_tool_calls"
                   THEN "guard" ELSE AfterAssistantMessage(r.tool_calls)
    /\ invocations' = invocations + 1
    /\ UNCHANGED <<plannerVars, setup, now, iteration, completedIterations,
                   iterationHistory, result, executions>>
    /\ UNCHANGED componentVars


\* streaming mode: llm.stream returns the turn's chunk sequence
StreamOpen ==
    /\ pc = "stream_open"
    /\ \E st \in Streams(stub, iteration) :
          turn' = [turn EXCEPT !.stream = st]
    /\ invocations' = invocations + 1
    /\ pc' = "streaming"
    /\ UNCHANGED <<plannerVars, setup, now, iteration, completedIterations, messages,
                   iterationHistory, events, result, executions>>
    /\ UNCHANGED componentVars

\* streaming mode: llm.stream throws, or the chunk sequence throws part-way
StreamFails ==
    /\ pc \in {"stream_open", "streaming"}
    /\ \E e \in ModelErrors(stub) :
          turn' = [turn EXCEPT !.errorMessage = e]
    /\ invocations' = IF pc = "stream_open" THEN invocations + 1 ELSE invocations
    /\ pc' = TryCatch
    /\ UNCHANGED <<plannerVars, setup, now, iteration, completedIterations, messages,
                   iterationHistory, events, result, executions>>
    /\ UNCHANGED componentVars

\* streaming mode, one chunk: its text is forwarded as a thought, its tool-call
\* chunks are merged into the accumulated calls
StreamChunk ==
    /\ pc = "streaming"
    /\ turn.stream # <<>>
    /\ LET chunk == Head(turn.stream) IN
          /\ events' = IF chunk.content # <<>>
                       THEN emitEvent(events,
                                ThoughtEvent(IterationId(iteration), chunk.content, FALSE))
                       ELSE events
          /\ turn' = [turn EXCEPT
                        !.stream = Tail(turn.stream),
                        !.content = turn.content \o chunk.content,
                        !.accumulatedToolCalls =
                            IF Len(chunk.tool_call_chunks) > 0
                            THEN mergeToolCalls(turn.accumulatedToolCalls,
                                                chunk.tool_call_chunks)
                            ELSE turn.accumulatedToolCalls]
    /\ UNCHANGED <<plannerVars, setup, now, pc, iteration, completedIterations, messages,
                   iterationHistory, result, invocations, executions>>
    /\ UNCHANGED componentVars

\* a turn end that does not wait for the end of the chunk sequence
StreamEndEarly ==
    /\ pc = "streaming"
    /\ \E t \in IF \E j \in 1..Len(turn.accumulatedToolCalls) :
                        turn.accumulatedToolCalls[j].id = <<>>
                 THEN Times ELSE {now} :
       LET toolCalls == toLangChainToolCalls(turn.accumulatedToolCalls, t)
           next == AfterAssistantMessage(toolCalls)
       IN
          /\ now' = t
          /\ events' = IF turn.content # <<>>
                       THEN emitEvent(events,
                                ThoughtEvent(IterationId(iteration), <<>>, TRUE))
                       ELSE events
          /\ messages' = Append(messages, AIMessage(turn.content, toolCalls))
          /\ turn' = [turn EXCEPT
                        !.tool_calls = toolCalls,
                        !.callIndex = 1,
                        !.answer = IF FinalAnswerCall(toolCalls) # 0
                                   THEN ExtractAnswer(toolCalls[FinalAnswerCall(toolCalls)],
                                                      turn.content)
                                   ELSE <<>>]
          /\ iterationHistory' = IF next = "no_tool_calls"
                                 THEN Append(iterationHistory, turn.content)
                                 ELSE iterationHistory
          /\ pc' = IF next = "no_tool_calls" THEN "guard" ELSE next
    /\ UNCHANGED <<plannerVars, setup, iteration, completedIterations, result,
                   invocations, executions>>
    /\ UNCHANGED componentVars

\* streaming mode, after the last chunk: the completion marker closes the text,
\* the assistant message joins the conversation, and a final-answer call is
\* looked for; a turn without tool calls returns to run, which records its text
StreamEnd ==
    /\ pc = "streaming"
    /\ turn.stream = <<>>
    /\ ArgumentsParse(turn.accumulatedToolCalls)
    /\ \E t \in IF \E j \in 1..Len(turn.accumulatedToolCalls) :
                        turn.accumulatedToolCalls[j].id = <<>>
                 THEN Times ELSE {now} :
       LET toolCalls == toLangChainToolCalls(turn.accumulatedToolCalls, t)
           next == AfterAssistantMessage(toolCalls)
       IN
          /\ now' = t
          /\ events' = IF turn.content # <<>>
                       THEN emitEvent(events,
                                ThoughtEvent(IterationId(iteration), <<>>, TRUE))
                       ELSE events
          /\ messages' = Append(messages, AIMessage(turn.content, toolCalls))
          /\ turn' = [turn EXCEPT
                        !.tool_calls = toolCalls,
                        !.callIndex = 1,
                        !.answer = IF FinalAnswerCall(toolCalls) # 0
                                   THEN ExtractAnswer(toolCalls[FinalAnswerCall(toolCalls)],
                                                      turn.content)
                                   ELSE <<>>]
          /\ iterationHistory' = IF next = "no_tool_calls"
                                 THEN Append(iterationHistory, turn.content)
                                 ELSE iterationHistory
          /\ pc' = IF next = "no_tool_calls" THEN "guard" ELSE next
    /\ UNCHANGED <<plannerVars, setup, iteration, completedIterations, result,
                   invocations, executions>>
    /\ UNCHANGED componentVars

\* streaming mode, after the last chunk, when an accumulated arguments text
\* does not parse: the completion marker closes the text, toLangChainToolCalls
\* reports the failure by throwing, and the throw leaves streamIteration
StreamEndParseFails ==
    /\ pc = "streaming"
    /\ turn.stream = <<>>
    /\ ~ArgumentsParse(turn.accumulatedToolCalls)
    /\ events' = IF turn.content # <<>>
                 THEN emitEvent(events,
                          ThoughtEvent(IterationId(iteration), <<>>, TRUE))
                 ELSE events
    /\ turn' = [turn EXCEPT !.errorMessage = <<"parse_error">>]
    /\ pc' = TryCatch
    /\ UNCHANGED <<plannerVars, setup, now, iteration, completedIterations, messages,
                   iterationHistory, result, invocations, executions>>
    /\ UNCHANGED componentVars

\* the final-answer tool was called: final_result is emitted and run returns
FinalAnswer ==
    /\ pc = "final_answer"
    /\ events' = emitEvent(events, FinalResultEvent(turn.answer, iteration))
    /\ result' = turn.answer
    /\ pc' = "returned"
    /\ UNCHANGED <<plannerVars, setup, now, iteration, completedIterations, messages,
                   iterationHistory, turn, invocations, executions>>
    /\ UNCHANGED componentVars

\* the next call of the turn: its tool_call event
ToolCall ==
    /\ pc = "dispatch"
    /\ turn.callIndex <= Len(turn.tool_calls)
    /\ LET call == turn.tool_calls[turn.callIndex] IN
       \E t \in IF call.id = <<>> THEN Times ELSE {now} :
          /\ now' = t
          /\ events' = emitEvent(events,
                          ToolCallEvent(ToolCallId(call, t), call.name, call.args))
          /\ turn' = [turn EXCEPT !.toolCallId = ToolCallId(call, t)]
    /\ pc' = "execute"
    /\ UNCHANGED <<plannerVars, setup, iteration, completedIterations, messages,
                   iterationHistory, result, invocations, executions>>
    /\ UNCHANGED componentVars

\* the tool is looked up and executed; a miss or a failure becomes the
\* observation and is reported by an error event
Execute ==
    /\ pc = "execute"
    /\ LET call == turn.tool_calls[turn.callIndex] IN
          IF ~ToolFound(tools, call.name)
          THEN LET observation ==
                      ToolNotFoundObservation(call.name, AllTools(tools), config.streaming)
               IN /\ turn' = [turn EXCEPT !.observation = observation, !.success = FALSE]
                  /\ events' = emitEvent(events, ErrorEvent(observation))
                  /\ UNCHANGED executions
          ELSE \E o \in ToolOutcomes(call.name) :
                  /\ executions' = Append(executions,
                                     [name |-> call.name, args |-> call.args,
                                      threw |-> o.throws])
                  /\ IF o.throws
                     THEN /\ turn' = [turn EXCEPT
                                        !.observation = ToolFailedObservation(o.text),
                                        !.success = FALSE]
                          /\ events' = emitEvent(events,
                                          ErrorEvent(ToolFailedObservation(o.text)))
                     ELSE /\ turn' = [turn EXCEPT !.observation = o.text, !.success = TRUE]
                          /\ UNCHANGED events
    /\ pc' = "tool_result"
    /\ UNCHANGED <<plannerVars, setup, now, iteration, completedIterations, messages,
                   iterationHistory, result, invocations>>
    /\ UNCHANGED componentVars

\* a dispatch that reports the result of a call only when the call succeeded
ToolResultOnlyOnSuccess ==
    /\ pc = "tool_result"
    /\ LET call == turn.tool_calls[turn.callIndex] IN
          /\ events' = IF turn.success
                       THEN emitEvent(events,
                                ToolCallResultEvent(turn.toolCallId, call.name,
                                                    turn.observation, turn.success))
                       ELSE events
          /\ messages' = Append(messages, ToolMessage(turn.toolCallId, turn.observation))
          /\ iterationHistory' = IF config.streaming THEN iterationHistory
                                 ELSE Append(iterationHistory,
                                             HistoryEntry(call.name, turn.observation))
    /\ turn' = [turn EXCEPT !.callIndex = turn.callIndex + 1]
    /\ pc' = "dispatch"
    /\ UNCHANGED <<plannerVars, setup, now, iteration, completedIterations, result,
                   invocations, executions>>
    /\ UNCHANGED componentVars

\* the call's tool_call_result event and its tool-result message; buffered
\* mode records the call in the iteration history
ToolResult ==
    /\ pc = "tool_result"
    /\ LET call == turn.tool_calls[turn.callIndex] IN
          /\ events' = emitEvent(events,
                          ToolCallResultEvent(turn.toolCallId, call.name,
                                              turn.observation, turn.success))
          /\ messages' = Append(messages, ToolMessage(turn.toolCallId, turn.observation))
          /\ iterationHistory' = IF config.streaming THEN iterationHistory
                                 ELSE Append(iterationHistory,
                                             HistoryEntry(call.name, turn.observation))
    /\ turn' = [turn EXCEPT !.callIndex = turn.callIndex + 1]
    /\ pc' = "dispatch"
    /\ UNCHANGED <<plannerVars, setup, now, iteration, completedIterations, result,
                   invocations, executions>>
    /\ UNCHANGED componentVars

\* every call of the turn is dispatched; streamIteration returns its text,
\* which run records
DispatchDone ==
    /\ pc = "dispatch"
    /\ turn.callIndex > Len(turn.tool_calls)
    /\ iterationHistory' = IF config.streaming
                           THEN Append(iterationHistory, turn.content)
                           ELSE iterationHistory
    /\ pc' = "guard"
    /\ UNCHANGED <<plannerVars, setup, now, iteration, completedIterations, messages,
                   events, turn, result, invocations, executions>>
    /\ UNCHANGED componentVars

\* a catch block that recovers without telling the observer
CatchSilent ==
    /\ pc = "catch"
    /\ messages' = Append(messages, HumanMessage(CorrectiveMessage(turn.errorMessage)))
    /\ pc' = "guard"
    /\ UNCHANGED <<plannerVars, setup, now, iteration, completedIterations,
                   iterationHistory, events, turn, result, invocations, executions>>
    /\ UNCHANGED componentVars

\* a catch block that takes the conversation back to its first two messages
\* before it adds the corrective message
CatchRewinding ==
    /\ pc = "catch"
    /\ events' = emitEvent(events,
                    ErrorEvent(IterationFailedMessage(iteration, turn.errorMessage)))
    /\ messages' = Append(SubSeq(messages, 1, 2),
                          HumanMessage(CorrectiveMessage(turn.errorMessage)))
    /\ pc' = "guard"
    /\ UNCHANGED <<plannerVars, setup, now, iteration, completedIterations,
                   iterationHistory, turn, result, invocations, executions>>
    /\ UNCHANGED componentVars

\* the catch block of the loop body: the error event and the corrective message
Catch ==
    /\ pc = "catch"
    /\ events' = emitEvent(events,
                    ErrorEvent(IterationFailedMessage(iteration, turn.errorMessage)))
    /\ messages' = Append(messages, HumanMessage(CorrectiveMessage(turn.errorMessage)))
    /\ pc' = "guard"
    /\ UNCHANGED <<plannerVars, setup, now, iteration, completedIterations,
                   iterationHistory, turn, result, invocations, executions>>
    /\ UNCHANGED componentVars

\* the end of the loop body: break on an empty last message in buffered mode,
\* otherwise the next iteration
Guard ==
    /\ pc = "guard"
    /\ IF EarlyStop(config.streaming, messages[Len(messages)])
       THEN /\ pc' = "fallback"
            /\ UNCHANGED iteration
       ELSE /\ pc' = "loop"
            /\ iteration' = iteration + 1
    /\ UNCHANGED <<plannerVars, setup, now, completedIterations, messages,
                   iterationHistory, events, turn, result, invocations, executions>>
    /\ UNCHANGED componentVars

\* a fallback that returns without telling the observer
FallbackSilent ==
    /\ pc = "fallback"
    /\ result' = FallbackAnswer(config.maxIterations, iterationHistory)
    /\ pc' = "returned"
    /\ UNCHANGED <<plannerVars, setup, now, iteration, completedIterations, messages,
                   iterationHistory, events, turn, invocations, executions>>
    /\ UNCHANGED componentVars

\* after the loop: the fallback answer is emitted as final_result and returned
Fallback ==
    /\ pc = "fallback"
    /\ LET fallbackAnswer == FallbackAnswer(config.maxIterations, iterationHistory) IN
          /\ events' = emitEvent(events,
                          FinalResultEvent(fallbackAnswer, completedIterations))
          /\ result' = fallbackAnswer
    /\ pc' = "returned"
    /\ UNCHANGED <<plannerVars, setup, now, iteration, completedIterations, messages,
                   iterationHistory, turn, invocations, executions>>
    /\ UNCHANGED componentVars

\* ---------------------------------------------------------- PlannerExecutor
\* the constructor: maxIterationsPerStep ?? 10, maxRePlanAttempts ?? 3
PlannerExecutor(cfg) ==
    [maxIterationsPerStep |->
        IF "maxIterationsPerStep" \in DOMAIN cfg THEN cfg.maxIterationsPerStep
        ELSE DefaultMaxIterationsPerStep,
     maxRePlanAttempts |->
        IF "maxRePlanAttempts" \in DOMAIN cfg THEN cfg.maxRePlanAttempts
        ELSE DefaultMaxRePlanAttempts]

Range(seq) == { seq[j] : j \in 1..Len(seq) }

\* the ids the model gives the steps of a plan
StepIds == <<"a", "b", "c", "f">>

\* the dependencies the model gives the step at position i: none, an earlier
\* or a later step, several steps, an id that is no step
DependencyLists(i) ==
    CASE i = 1 -> { <<>>, <<"b">>, <<"z">> }
      [] i = 2 -> { <<>>, <<"a">>, <<"z">> }
      [] OTHER -> { <<>>, <<"b">>, <<"a", "b">> }

\* the requiredTools the model gives the step at position i
RequiredToolLists(i) == IF i = 1 THEN { <<>>, <<"weather">> } ELSE { <<>> }

\* the id the model gives the step at position i: StepIds[i], or "a" again
StepIdChoices(i) == IF i = 2 THEN { StepIds[i], "a" } ELSE { StepIds[i] }

\* planData.steps of the generate_plan call: at most MaxSteps steps
PlanData ==
    UNION { { [i \in 1..n |->
                [id |-> ids[i], description |-> <<"do", ids[i]>>,
                 requiredTools |-> req[i], dependencies |-> deps[i]]] :
              ids  \in { f \in [1..n -> Range(StepIds)] :
                            \A i \in 1..n : f[i] \in StepIdChoices(i) },
              req  \in { f \in [1..n -> {<<>>, <<"weather">>}] :
                            \A i \in 1..n : f[i] \in RequiredToolLists(i) },
              deps \in { f \in [1..n -> {<<>>, <<"a">>, <<"b">>, <<"a", "b">>, <<"z">>}] :
                            \A i \in 1..n : f[i] \in DependencyLists(i) } } :
            n \in 0..MaxSteps }

\* generatePlan's result for the data of the generate_plan call
generatePlan(planData) ==
    [steps |-> [i \in 1..Len(planData) |->
                    [id |-> planData[i].id,
                     description |-> planData[i].description,
                     status |-> "pending",
                     requiredTools |-> planData[i].requiredTools,
                     dependencies |-> planData[i].dependencies,
                     result |-> <<>>]],
     history |-> <<>>]

\* why generatePlan throws: the model call fails, the response carries no tool
\* call, or its first tool call is not generate_plan
GeneratePlanErrors ==
    { <<"model_error">>, <<"no_plan_tool_call">>, <<"unexpected_tool_call">> }

\* updatedSteps of a refinement: at most MaxUpdatedSteps steps; the first is
\* named like a done step ("a") or newly ("d"), the others newly; status is
\* "pending", "skipped" or absent ("")
UpdatedStepLists ==
    UNION { { [j \in 1..n |->
                [id |-> IF j = 1 THEN first ELSE "e",
                 description |-> <<"redo", IF j = 1 THEN first ELSE "e">>,
                 status |-> IF j = 1 THEN st ELSE "pending",
                 requiredTools |-> <<>>]] :
              first \in {"a", "d"}, st \in {"", "skipped"} } :
            n \in 0..MaxUpdatedSteps }

\* what refinePlan resolves to; updatedSteps is optional
Refinements ==
    { [shouldReplan |-> b] : b \in BOOLEAN }
    \cup { [shouldReplan |-> TRUE, updatedSteps |-> u] : u \in UpdatedStepLists }

\* plan.steps.find(s => s.id === id): the position of the first such step,
\* 0 when there is none
FindStep(steps, id) ==
    IF \E j \in 1..Len(steps) : steps[j].id = id
    THEN CHOOSE j \in 1..Len(steps) :
            /\ steps[j].id = id
            /\ \A k \in 1..(j - 1) : steps[k].id # id
    ELSE 0

isPlanComplete(p) ==
    \A j \in 1..Len(p.steps) : p.steps[j].status \in {"done", "skipped"}

\* a predicate that looks at the dependencies only
EligibleIgnoringStatus(p, j) ==
    \A d \in Range(p.steps[j].dependencies) :
        /\ FindStep(p.steps, d) # 0
        /\ p.steps[FindStep(p.steps, d)].status = "done"

\* a predicate that looks at the status only
EligibleIgnoringDependencies(p, j) == p.steps[j].status = "pending"

\* the predicate of getNextStep's find
Eligible(p, j) ==
    /\ p.steps[j].status = "pending"
    /\ Len(p.steps[j].dependencies) > 0 =>
          \A d \in Range(p.steps[j].dependencies) :
              /\ FindStep(p.steps, d) # 0
              /\ p.steps[FindStep(p.steps, d)].status = "done"

\* a search that returns the last eligible step
getNextStepFromTheEnd(p) ==
    IF \E j \in 1..Len(p.steps) : Eligible(p, j)
    THEN CHOOSE j \in 1..Len(p.steps) :
            /\ Eligible(p, j)
            /\ \A k \in (j + 1)..Len(p.steps) : ~Eligible(p, k)
    ELSE 0

\* getNextStep: the position of the first eligible step, 0 when there is none
getNextStep(p) ==
    IF \E j \in 1..Len(p.steps) : Eligible(p, j)
    THEN CHOOSE j \in 1..Len(p.steps) :
            /\ Eligible(p, j)
            /\ \A k \in 1..(j - 1) : ~Eligible(p, k)
    ELSE 0

\* a selection that gives every step the full tool set
getToolsForStepUnscoped(step, allTools) == allTools

getToolsForStep(step, allTools) ==
    IF Len(step.requiredTools) > 0
    THEN SelectSeq(allTools, LAMBDA t : t \in Range(step.requiredTools))
    ELSE allTools

\* `步骤 ${entry.stepId} (${step?.description || '未知'}): ${entry.result}`
HistoryLine(p, entry) ==
    <<"step", entry.stepId, "(">>
        \o (IF FindStep(p.steps, entry.stepId) # 0
               /\ p.steps[FindStep(p.steps, entry.stepId)].description # <<>>
            THEN p.steps[FindStep(p.steps, entry.stepId)].description
            ELSE <<"unknown">>)
        \o <<"):">> \o entry.result

\* a rendering of the latest history entry only
formatPlanHistoryLatestOnly(p) ==
    IF Len(p.history) = 0 THEN <<>>
    ELSE <<"previous_results:">> \o HistoryLine(p, p.history[Len(p.history)])

formatPlanHistory(p) ==
    IF Len(p.history) = 0 THEN <<>>
    ELSE <<"previous_results:">>
            \o Join([j \in 1..Len(p.history) |-> HistoryLine(p, p.history[j])], "|")

\* a replan that keeps none of the steps: the updated steps only
ReplacedStepsDroppingDone(steps, updatedSteps) ==
    [j \in 1..Len(updatedSteps) |->
        [id |-> updatedSteps[j].id,
         description |-> updatedSteps[j].description,
         status |-> IF updatedSteps[j].status # "" THEN updatedSteps[j].status
                    ELSE "pending",
         requiredTools |-> updatedSteps[j].requiredTools,
         dependencies |-> <<>>,
         result |-> <<>>]]

\* the steps after a replan: the steps whose id is the id of a done step, then
\* the updated steps, pending unless marked skipped, without dependencies
ReplacedSteps(steps, updatedSteps) ==
    LET completedStepIds == { steps[j].id : j \in { k \in 1..Len(steps) :
                                                      steps[k].status = "done" } }
    IN  SelectSeq(steps, LAMBDA st : st.id \in completedStepIds)
        \o [j \in 1..Len(updatedSteps) |->
              [id |-> updatedSteps[j].id,
               description |-> updatedSteps[j].description,
               status |-> IF updatedSteps[j].status # "" THEN updatedSteps[j].status
                          ELSE "pending",
               requiredTools |-> updatedSteps[j].requiredTools,
               dependencies |-> <<>>,
               result |-> <<>>]]

PlanUpdate(p) == [type |-> "plan_update", plan |-> p]
PlannerThought(content) == [type |-> "thought", content |-> content]

\* a run without the try block: the throw leaves run
PlannerTryCatchMissing == "thrown"

\* where a throw inside run's try block continues
PlannerTryCatch == "catch"

\* no ReActExecutor exists
NoExecutor ==
    /\ config' = [maxIterations |-> 0, streaming |-> FALSE]
    /\ tools' = <<>>
    /\ input' = [input |-> <<>>, context |-> <<>>]
    /\ stub' = "none"
    /\ pc' = "none"
    /\ iteration' = 0
    /\ completedIterations' = 0
    /\ messages' = <<>>
    /\ iterationHistory' = <<>>
    /\ events' = <<>>
    /\ turn' = NoTurn
    /\ result' = <<>>
    /\ invocations' = 0
    /\ executions' = <<>>
    /\ now' = now
    /\ cancelRequested' = cancelRequested

\* the planner is constructed and run has not been called
PlannerConstructed ==
    /\ \E cfg \in [maxIterationsPerStep : {1}, maxRePlanAttempts : 0..MaxRePlanAttempts] :
          plannerConfig = PlannerExecutor(cfg)
    /\ plannerTools = <<"weather", "calculator">>
    /\ ppc = "constructed"
    /\ plan = [steps |-> <<>>, history |-> <<>>]
    /\ currentStep = 0
    /\ rePlanAttempts = 0
    /\ plannerEvents = <<>>
    /\ plannerError = <<>>
    /\ plannerResult = [success |-> FALSE, response |-> <<>>,
                        plan |-> [steps |-> <<>>, history |-> <<>>]]
    /\ config = [maxIterations |-> 0, streaming |-> FALSE]
    /\ tools = <<>>
    /\ input = [input |-> <<>>, context |-> <<>>]
    /\ stub = "none"
    /\ pc = "none"
    /\ iteration = 0
    /\ completedIterations = 0
    /\ messages = <<>>
    /\ iterationHistory = <<>>
    /\ events = <<>>
    /\ turn = NoTurn
    /\ result = <<>>
    /\ invocations = 0
    /\ executions = <<>>
    /\ now = 0
    /\ cancelRequested = FALSE

\* a planner whose caller's onMessage never throws
PlannerInit == PlannerConstructed /\ NoComponents

\* run: generatePlan returns the initial plan
GeneratePlan ==
    /\ ppc = "constructed"
    /\ \E planData \in PlanData : plan' = generatePlan(planData)
    /\ rePlanAttempts' = 0
    /\ ppc' = "loop"
    /\ UNCHANGED <<engineVars, plannerConfig, plannerTools, currentStep,
                   plannerEvents, plannerError, plannerResult>>
    /\ UNCHANGED componentVars

\* a run that goes on with an empty plan when generatePlan throws
GeneratePlanFailsRecovered ==
    /\ ppc = "constructed"
    /\ \E e \in GeneratePlanErrors : plannerError' = e
    /\ ppc' = "loop"
    /\ UNCHANGED <<engineVars, plannerConfig, plannerTools, plan, currentStep,
                   rePlanAttempts, plannerEvents, plannerResult>>
    /\ UNCHANGED componentVars

\* run: generatePlan throws
GeneratePlanFails ==
    /\ ppc = "constructed"
    /\ \E e \in GeneratePlanErrors : plannerError' = e
    /\ ppc' = PlannerTryCatch
    /\ UNCHANGED <<engineVars, plannerConfig, plannerTools, plan, currentStep,
                   rePlanAttempts, plannerEvents, plannerResult>>
    /\ UNCHANGED componentVars

\* a loop head that tries again, instead of leaving the loop, when no step is
\* eligible
NextStepWithoutBreak ==
    /\ ppc = "loop"
    /\ IF isPlanComplete(plan)
       THEN /\ ppc' = "final_response"
            /\ UNCHANGED <<plan, currentStep, plannerEvents>>
       ELSE IF getNextStep(plan) = 0
       THEN UNCHANGED <<ppc, plan, currentStep, plannerEvents>>
       ELSE /\ currentStep' = getNextStep(plan)
            /\ plan' = [plan EXCEPT !.steps[getNextStep(plan)].status = "in_progress"]
            /\ plannerEvents' = Append(plannerEvents, PlanUpdate(plan'))
            /\ ppc' = "start_step"
    /\ UNCHANGED <<engineVars, plannerConfig, plannerTools, rePlanAttempts,
                   plannerError, plannerResult>>
    /\ UNCHANGED componentVars

\* the head of the while loop: the plan is complete or no step is eligible and
\* the loop ends, or the next step is marked in_progress and announced
NextStep ==
    /\ ppc = "loop"
    /\ IF isPlanComplete(plan) \/ getNextStep(plan) = 0
       THEN /\ ppc' = "final_response"
            /\ UNCHANGED <<plan, currentStep, plannerEvents>>
       ELSE /\ currentStep' = getNextStep(plan)
            /\ plan' = [plan EXCEPT !.steps[getNextStep(plan)].status = "in_progress"]
            /\ plannerEvents' = Append(plannerEvents, PlanUpdate(plan'))
            /\ ppc' = "start_step"
    /\ UNCHANGED <<engineVars, plannerConfig, plannerTools, rePlanAttempts,
                   plannerError, plannerResult>>
    /\ UNCHANGED componentVars

\* a ReActExecutor is made for the step and its run is called with the step's
\* tools and the plan's history as context
StartStep ==
    /\ ppc = "start_step"
    /\ plannerEvents' = Append(plannerEvents,
                            PlannerThought(<<"executing_step", plan.steps[currentStep].id>>))
    /\ config' = ReActExecutor([maxIterations |-> plannerConfig.maxIterationsPerStep,
                                streaming |-> TRUE])
    /\ tools' = getToolsForStep(plan.steps[currentStep], plannerTools)
    /\ input' = [input |-> plan.steps[currentStep].description,
                 context |-> formatPlanHistory(plan)]
    /\ stub' = "step"
    /\ pc' = "constructed"
    /\ ppc' = "executing"
    /\ UNCHANGED <<iteration, completedIterations, messages, iterationHistory, events,
                   turn, result, invocations, executions, now, cancelRequested,
                   plannerConfig, plannerTools, plan, currentStep, rePlanAttempts,
                   plannerError, plannerResult>>
    /\ UNCHANGED componentVars

\* executor.run rejects before its loop (the model cannot be set up)
ExecutorFails ==
    /\ ppc = "executing"
    /\ pc = "constructed"
    /\ plannerError' = <<"executor_error">>
    /\ ppc' = PlannerTryCatch
    /\ NoExecutor
    /\ UNCHANGED <<plannerConfig, plannerTools, plan, currentStep, rePlanAttempts,
                   plannerEvents, plannerResult>>
    /\ UNCHANGED componentVars

\* a step end that does not await executor.run: the step is marked done with
\* whatever result there is while the executor is still running
StepDoneWithoutAwait ==
    /\ ppc = "executing"
    /\ pc # "none"
    /\ plan' = [steps |-> [plan.steps EXCEPT ![currentStep].result = result,
                                            ![currentStep].status = "done"],
                history |-> Append(plan.history,
                                   [stepId |-> plan.steps[currentStep].id,
                                    result |-> result])]
    /\ plannerEvents' = Append(plannerEvents, PlanUpdate(plan'))
    /\ ppc' = IF rePlanAttempts < plannerConfig.maxRePlanAttempts
              THEN "refine" ELSE "loop"
    /\ UNCHANGED <<engineVars, plannerConfig, plannerTools, currentStep, rePlanAttempts,
                   plannerError, plannerResult>>
    /\ UNCHANGED componentVars

\* a step end that asks for a refinement whatever the number of replans so far
StepDoneAlwaysRefines ==
    /\ ppc = "executing"
    /\ pc = "returned"
    /\ plan' = [steps |-> [plan.steps EXCEPT ![currentStep].result = result,
                                            ![currentStep].status = "done"],
                history |-> Append(plan.history,
                                   [stepId |-> plan.steps[currentStep].id,
                                    result |-> result])]
    /\ plannerEvents' = Append(plannerEvents, PlanUpdate(plan'))
    /\ ppc' = "refine"
    /\ NoExecutor
    /\ UNCHANGED <<plannerConfig, plannerTools, currentStep, rePlanAttempts,
                   plannerError, plannerResult>>
    /\ UNCHANGED componentVars

\* executor.run returned: the result is recorded on the step, the step is done,
\* the history grows, the plan is announced
StepDone ==
    /\ ppc = "executing"
    /\ pc = "returned"
    /\ plan' = [steps |-> [plan.steps EXCEPT ![currentStep].result = result,
                                            ![currentStep].status = "done"],
                history |-> Append(plan.history,
                                   [stepId |-> plan.steps[currentStep].id,
                                    result |-> result])]
    /\ plannerEvents' = Append(plannerEvents, PlanUpdate(plan'))
    /\ ppc' = IF rePlanAttempts < plannerConfig.maxRePlanAttempts
              THEN "refine" ELSE "loop"
    /\ NoExecutor
    /\ UNCHANGED <<plannerConfig, plannerTools, currentStep, rePlanAttempts,
                   plannerError, plannerResult>>
    /\ UNCHANGED componentVars

\* refinePlan returns: a yes with updated steps replaces the steps that are not
\* done and counts as a replan attempt
RefinePlan ==
    /\ ppc = "refine"
    /\ \E refinement \in Refinements :
          IF refinement.shouldReplan /\ "updatedSteps" \in DOMAIN refinement
          THEN /\ plan' = [plan EXCEPT
                            !.steps = ReplacedSteps(plan.steps, refinement.updatedSteps)]
               /\ rePlanAttempts' = rePlanAttempts + 1
               /\ plannerEvents' = plannerEvents
                                     \o <<PlannerThought(<<"replanning">>), PlanUpdate(plan')>>
          ELSE UNCHANGED <<plan, rePlanAttempts, plannerEvents>>
    /\ ppc' = "loop"
    /\ UNCHANGED <<engineVars, plannerConfig, plannerTools, currentStep,
                   plannerError, plannerResult>>
    /\ UNCHANGED componentVars

\* refinePlan throws
RefinePlanFails ==
    /\ ppc = "refine"
    /\ plannerError' = <<"model_error">>
    /\ ppc' = PlannerTryCatch
    /\ UNCHANGED <<engineVars, plannerConfig, plannerTools, plan, currentStep,
                   rePlanAttempts, plannerEvents, plannerResult>>
    /\ UNCHANGED componentVars

\* generateFinalResponse returns and run returns success
FinalResponse ==
    /\ ppc = "final_response"
    /\ plannerResult' = [success |-> TRUE, response |-> <<"summary">>, plan |-> plan]
    /\ ppc' = "returned"
    /\ UNCHANGED <<engineVars, plannerConfig, plannerTools, plan, currentStep,
                   rePlanAttempts, plannerEvents, plannerError>>
    /\ UNCHANGED componentVars

\* generateFinalResponse throws
FinalResponseFails ==
    /\ ppc = "final_response"
    /\ plannerError' = <<"summary_error">>
    /\ ppc' = PlannerTryCatch
    /\ UNCHANGED <<engineVars, plannerConfig, plannerTools, plan, currentStep,
                   rePlanAttempts, plannerEvents, plannerResult>>
    /\ UNCHANGED componentVars

\* run's catch block: the error event, and the failure result with an empty plan
PlannerCatch ==
    /\ ppc = "catch"
    /\ plannerEvents' = Append(plannerEvents,
                            ErrorEvent(<<"planner_failed:">> \o plannerError))
    /\ plannerResult' = [success |-> FALSE,
                         response |-> <<"cannot_complete_plan:">> \o plannerError,
                         plan |-> [steps |-> <<>>, history |-> <<>>]]
    /\ ppc' = "returned"
    /\ UNCHANGED <<engineVars, plannerConfig, plannerTools, plan, currentStep,
                   rePlanAttempts, plannerError>>
    /\ UNCHANGED componentVars


Next ==
    \/ Run
    \/ LoopTop
    \/ Invoke
    \/ InvokeFails
    \/ StreamOpen
    \/ StreamFails
    \/ StreamChunk
    \/ StreamEnd
    \/ StreamEndParseFails
    \/ FinalAnswer
    \/ ToolCall
    \/ Execute
    \/ ToolResult
    \/ DispatchDone
    \/ Catch
    \/ Guard
    \/ Fallback

Spec == Init /\ [][Next]_vars

\* the caller asks for the run to be cancelled while the run is under way; the
\* request changes nothing else
Cancel ==
    /\ pc \notin {"constructed", "returned", "thrown"}
    /\ ~cancelRequested
    /\ cancelRequested' = TRUE
    /\ UNCHANGED <<plannerVars, config, tools, input, stub, now, pc, iteration,
                   completedIterations, messages, iterationHistory, events, turn,
                   result, invocations, executions>>
    /\ UNCHANGED componentVars

CancelNext ==
    \/ Next
    \/ Cancel

\* a run that the caller may ask to cancel
CancelSpec == Init /\ [][CancelNext]_vars

\* a PlannerExecutor run; its executors run in streaming mode
PlannerNext ==
    \/ GeneratePlan
    \/ GeneratePlanFails
    \/ NextStep
    \/ StartStep
    \/ ExecutorFails
    \/ StepDone
    \/ RefinePlan
    \/ RefinePlanFails
    \/ FinalResponse
    \/ FinalResponseFails
    \/ PlannerCatch
    \/ Run
    \/ LoopTop
    \/ StreamOpen
    \/ StreamChunk
    \/ StreamEnd
    \/ FinalAnswer
    \/ ToolCall
    \/ Execute
    \/ ToolResult
    \/ DispatchDone
    \/ Guard
    \/ Fallback

PlannerSpec == PlannerInit /\ [][PlannerNext]_vars


\* every awaited call of the planner and of its executors returns or fails, and
\* run goes on
PlannerFairSpec == PlannerSpec /\ WF_vars(PlannerNext)

\* every awaited model call and tool call returns or fails, and the run goes on
FairSpec == Spec /\ WF_vars(Next)

\* ------------------------------------------------------------- observations
NumEvents(type) == Cardinality({ j \in 1..Len(events) : events[j].type = type })

\* the error events of the loop's catch block
IterationFailedEvents ==
    { j \in 1..Len(events) :
        events[j].type = "error" /\ Head(events[j].message) = "iteration" }

\* the corrective messages of the loop's catch block
CorrectiveMessages ==
    { j \in 1..Len(messages) :
        messages[j].role = "human" /\ Head(messages[j].content) = "error_occurred:" }

AssistantMessages == SelectSeq(messages, LAMBDA m : m.role = "ai")
ToolMessages == SelectSeq(messages, LAMBDA m : m.role = "tool")
ToolCallEvents == SelectSeq(events, LAMBDA e : e.type = "tool_call")
ToolCallResultEvents == SelectSeq(events, LAMBDA e : e.type = "tool_call_result")

\* model invocations that failed: each invocation that is over either failed
\* or put one assistant message into the conversation
FailedInvocations == invocations - Len(AssistantMessages)

RECURSIVE NumProposed(_)
\* the tool calls proposed by a sequence of assistant messages
NumProposed(ms) ==
    IF ms = <<>> THEN 0 ELSE Len(Head(ms).tool_calls) + NumProposed(Tail(ms))

Registered(name) == name \in Range(tools) \cup {FinalAnswerToolName}

\* the run ended because the loop ran out of iterations
Exhausted == pc = "returned" /\ iteration > config.maxIterations


\* the tool_call_result events that report a failure
FailedResults ==
    { j \in 1..Len(events) :
        events[j].type = "tool_call_result" /\ ~events[j].success }

\* ------------------------------------------------------------------- claims
\* C2: ReActExecutor.run never rejects, whatever the model does (invoke or
\* stream throwing, at once or part-way) and whatever the tools do (execute
\* throwing), in buffered and in streaming mode: no failure leaves the loop
\* body, and a run that is over has resolved to the text of its final_result.
C2_RunNeverThrows ==
    /\ pc # "thrown"
    /\ pc = "returned" =>
          /\ events[Len(events)].type = "final_result"
          /\ result = events[Len(events)].content

\* a streaming run that saw a model failure and a tool failure has returned
C2_Witness ==
    /\ pc = "returned"
    /\ config.streaming
    /\ IterationFailedEvents # {}
    /\ \E k \in 1..Len(executions) : executions[k].threw

\* a buffered run that saw a model failure and a tool failure has returned
C2_WitnessBuffered ==
    /\ pc = "returned"
    /\ ~config.streaming
    /\ IterationFailedEvents # {}
    /\ \E k \in 1..Len(executions) : executions[k].threw

\* C4: one run invokes the model at most maxIterations times (10 when the
\* configuration does not say), and, every model call and tool call returning
\* or failing, the run eventually returns.
C4_BoundedAndTerminates ==
    /\ [](invocations <= config.maxIterations)
    /\ <>(pc = "returned")

\* a run under the default configuration has used all of its 10 invocations
C4_Witness ==
    /\ pc = "returned"
    /\ config.maxIterations = DefaultMaxIterations
    /\ invocations = DefaultMaxIterations

\* what the fallback answer lists: the text of each turn in streaming mode, one
\* entry per tool_call_result in buffered mode
C5_RecordedHistory ==
    IF config.streaming
    THEN [j \in 1..Len(AssistantMessages) |-> AssistantMessages[j].content]
    ELSE [j \in 1..Len(ToolCallResultEvents) |->
            <<"action:", ToolCallResultEvents[j].toolName, "observation:">>
                \o ToolCallResultEvents[j].result]

\* C5: running out of iterations is not an error: the run returns the
\* max-iterations marker followed by the recorded history entries in order,
\* emits exactly one final_result carrying that text, and emits no error event
\* for the exhaustion (every error event reports a failed invocation or a
\* failed tool call).
C5_ExhaustionFallback ==
    Exhausted =>
        /\ result = <<"max_iterations_reached", ToString(config.maxIterations)>>
                        \o Join(C5_RecordedHistory, "|")
        /\ NumEvents("final_result") = 1
        /\ events[Len(events)] = FinalResultEvent(result, config.maxIterations)
        /\ NumEvents("error") = FailedInvocations + Cardinality(FailedResults)

\* an exhausted run with several history entries and no failure at all
C5_Witness ==
    /\ Exhausted
    /\ config.maxIterations > 0
    /\ Len(C5_RecordedHistory) >= 2
    /\ NumEvents("error") = 0

\* C6: every run emits exactly one final_result, when it ends and on every
\* way of ending (final-answer call, exhaustion, early stop); none is emitted
\* while the loop runs and nothing is emitted after it.
C6_OneFinalResult ==
    /\ NumEvents("final_result") = (IF pc = "returned" THEN 1 ELSE 0)
    /\ pc = "returned" =>
          /\ events[Len(events)].type = "final_result"
          /\ events[Len(events)].content = result

\* a run of several turns has ended by the early stop
C6_Witness ==
    /\ pc = "returned"
    /\ iteration <= config.maxIterations
    /\ iteration >= 2
    /\ FinalAnswerCall(messages[Len(messages)].tool_calls) = 0
    /\ NumEvents("final_result") = 1


\* the positions of the final-answer calls in a turn's list of calls
C7_FinalCalls(toolCalls) ==
    { k \in 1..Len(toolCalls) : toolCalls[k].name = FinalAnswerToolName }

\* the first final-answer call of a list that has one
C7_FirstFinalCall(toolCalls) ==
    toolCalls[CHOOSE k \in C7_FinalCalls(toolCalls) :
                 \A l \in C7_FinalCalls(toolCalls) : k <= l]

\* the turn of the assistant message at position j ended the run before any of
\* its calls was dispatched: nothing was appended after the message, every
\* tool_call event, execution and tool-result message belongs to an earlier turn
C7_StopsWithoutDispatch(j) ==
    /\ j = Len(messages)
    /\ pc \in {"final_answer", "returned"}
    /\ Len(ToolCallEvents)
          = NumProposed(SelectSeq(SubSeq(messages, 1, j - 1), LAMBDA m : m.role = "ai"))
    /\ Len(ToolMessages) = Len(ToolCallEvents)
    /\ Len(executions)
          = Cardinality({ k \in 1..Len(ToolCallEvents) :
                            Registered(ToolCallEvents[k].toolName) })

\* C7, as stated: a turn that proposes a final-answer call stops the run, none
\* of the turn's calls is dispatched wherever the final-answer call sits, and
\* run returns that call's sole argument.
C7_ReturnsSoleArgument ==
    \A j \in 1..Len(messages) :
        (messages[j].role = "ai" /\ C7_FinalCalls(messages[j].tool_calls) # {}) =>
            /\ C7_StopsWithoutDispatch(j)
            /\ pc = "returned" =>
                  result = AnswerOf(C7_FirstFinalCall(messages[j].tool_calls).args)

\* C7, amended: a turn that proposes a final-answer call stops the run, none of
\* the turn's calls is dispatched wherever the final-answer call sits, and run
\* returns the answer argument of the first final-answer call, or the turn's
\* text when that argument is empty or missing.
C7_FinalAnswerPrecedence ==
    \A j \in 1..Len(messages) :
        (messages[j].role = "ai" /\ C7_FinalCalls(messages[j].tool_calls) # {}) =>
            /\ C7_StopsWithoutDispatch(j)
            /\ pc = "returned" =>
                  LET answer == AnswerOf(C7_FirstFinalCall(messages[j].tool_calls).args)
                  IN  result = IF answer # <<>> THEN answer ELSE messages[j].content

\* a streaming run has returned the answer of a final-answer call that came
\* second in its turn, after a call of a registered tool
C7_Witness ==
    /\ pc = "returned"
    /\ config.streaming
    /\ LET last == messages[Len(messages)] IN
          /\ last.role = "ai"
          /\ Len(last.tool_calls) = 2
          /\ last.tool_calls[1].name = "weather"
          /\ last.tool_calls[2].name = FinalAnswerToolName
    /\ result = <<"A">>
    /\ executions = <<>>

\* what the loop does with a turn that proposes no tool calls
C8_NoToolCallTurns ==
    { j \in 1..Len(messages) :
        messages[j].role = "ai" /\ Len(messages[j].tool_calls) = 0 }

C9_ToolFailureIsLocal ==
    /\ pc # "thrown"
    /\ \A j \in 1..Len(ToolCallResultEvents) :
          LET e == ToolCallResultEvents[j] IN
             /\ ~Registered(e.toolName) => ~e.success
             /\ ~e.success => e.result # <<>>
             /\ j <= Len(ToolMessages) =>
                   /\ ToolMessages[j].content = e.result
                   /\ ToolMessages[j].tool_call_id = e.toolCallId
    /\ pc \notin {"execute", "tool_result"} =>
          /\ Len(ToolCallResultEvents) = Len(ToolCallEvents)
          /\ Len(ToolMessages) = Len(ToolCallEvents)
          /\ Cardinality(FailedResults)
                = Cardinality({ k \in 1..Len(ToolCallEvents) :
                                  ~Registered(ToolCallEvents[k].toolName) })
                  + Cardinality({ k \in 1..Len(executions) : executions[k].threw })
    /\ (pc \in {"guard", "loop", "fallback"}
           \/ (pc = "returned" /\ messages[Len(messages)].role # "ai")) =>
          Len(ToolCallEvents) = NumProposed(AssistantMessages)
    /\ (pc = "fallback" /\ iteration <= config.maxIterations
           /\ messages[Len(messages)].role = "tool") =>
          ToolCallResultEvents[Len(ToolCallResultEvents)].success
    /\ (stub = "missing_tool" /\ pc = "returned") =>
          /\ invocations = config.maxIterations
          /\ Len(ToolCallResultEvents) = config.maxIterations
          /\ Cardinality(FailedResults) = config.maxIterations
          /\ executions = <<>>
          /\ SubSeq(result, 1, 2)
                = <<"max_iterations_reached", ToString(config.maxIterations)>>

\* a turn's first call threw, its second call named an unregistered tool, and
\* the run went on to another turn
C9_Witness ==
    /\ Len(ToolCallResultEvents) >= 2
    /\ ~ToolCallResultEvents[1].success
    /\ ToolCallResultEvents[1].toolName = "weather"
    /\ ~ToolCallResultEvents[2].success
    /\ ToolCallResultEvents[2].toolName = "calculator"
    /\ invocations = 2

\* the model that always requests an unregistered tool used up the default budget
C9_WitnessMissingTool ==
    /\ stub = "missing_tool"
    /\ pc = "returned"
    /\ invocations = DefaultMaxIterations

\* C10: every failure of a model invocation is caught in its turn: it is
\* reported by exactly one error event, which names the turn, and answered by
\* exactly one corrective user message, both before the next invocation; the
\* failed turn counts against the budget, so the model that fails every
\* invocation yields exactly maxIterations error events (and corrective
\* messages) and then the fallback answer.
C10_InvocationFailureRecovered ==
    LET failures == FailedInvocations - (IF pc = "streaming" THEN 1 ELSE 0)
        handled  == IF pc = "catch" THEN failures - 1 ELSE failures
    IN  /\ Cardinality(IterationFailedEvents) = handled
        /\ Cardinality(CorrectiveMessages) = handled
        /\ \A j, k \in IterationFailedEvents :
              j < k => events[j].message[2] # events[k].message[2]
        /\ (stub = "always_fails" /\ pc = "returned") =>
              /\ invocations = config.maxIterations
              /\ Len(events) = config.maxIterations + 1
              /\ Len(messages) = config.maxIterations + 2
              /\ \A k \in 1..config.maxIterations :
                    /\ events[k] = ErrorEvent(<<"iteration", ToString(k), "failed:",
                                                "model_error">>)
                    /\ messages[k + 2] = HumanMessage(<<"error_occurred:", "model_error",
                                                        "please_continue">>)
              /\ result = <<"max_iterations_reached", ToString(config.maxIterations)>>
              /\ events[Len(events)] = FinalResultEvent(result, config.maxIterations)

\* the model that fails every invocation used up the default budget
C10_Witness ==
    /\ stub = "always_fails"
    /\ pc = "returned"
    /\ Cardinality(IterationFailedEvents) = DefaultMaxIterations

\* a stream that failed part-way, after text was forwarded, was recovered
C10_WitnessPartWay ==
    /\ config.streaming
    /\ pc = "stream_open"
    /\ Cardinality(CorrectiveMessages) = 1
    /\ NumEvents("thought") >= 1
    /\ AssistantMessages = <<>>


\* every dependency of the step at position j of p resolves, by its id, to a
\* step of p that is done
C1_DependenciesDone(p, j) ==
    \A d \in Range(p.steps[j].dependencies) :
        \E k \in 1..Len(p.steps) :
            /\ p.steps[k].id = d
            /\ \A l \in 1..(k - 1) : p.steps[l].id # d
            /\ p.steps[k].status = "done"

\* the step at position j becomes in_progress in this transition
C1_Marked(j) ==
    /\ j \in 1..Len(plan'.steps)
    /\ plan'.steps[j].status = "in_progress"
    /\ ~(j \in 1..Len(plan.steps) /\ plan.steps[j].status = "in_progress")

\* C1: for any plan of the model and any replans, a step becomes in_progress
\* only from pending and only when every id in its dependencies resolves to a
\* done step of the current plan, and at no time is a step in_progress while
\* one of its dependencies is not done.
C1_InProgressOnlyWhenDependenciesDone ==
    /\ [](\A j \in 1..Len(plan.steps) :
             plan.steps[j].status = "in_progress" => C1_DependenciesDone(plan, j))
    /\ [][\A j \in 1..MaxSteps + MaxUpdatedSteps * MaxRePlanAttempts :
             C1_Marked(j) =>
                /\ j \in 1..Len(plan.steps)
                /\ plan.steps[j].status = "pending"
                /\ plan'.steps = [plan.steps EXCEPT ![j].status = "in_progress"]
                /\ C1_DependenciesDone(plan, j)]_vars

\* a step with two dependencies is executed once both are done
C1_Witness ==
    /\ ppc = "executing"
    /\ Len(plan.history) = 2
    /\ \E j \in 1..Len(plan.steps) :
          /\ plan.steps[j].status = "in_progress"
          /\ plan.steps[j].dependencies = <<"a", "b">>

\* after a replan, a step the replan kept is executed, its dependency done
C1_WitnessAfterReplan ==
    /\ ppc = "executing"
    /\ rePlanAttempts = 1
    /\ \E j \in 1..Len(plan.steps) :
          /\ plan.steps[j].status = "in_progress"
          /\ plan.steps[j].dependencies # <<>>

\* the error events the planner handed to the observer
C3_ErrorEvents ==
    { j \in 1..Len(plannerEvents) : plannerEvents[j].type = "error" }

\* C3: PlannerExecutor.run never rejects: a failure of plan generation, of a
\* step's executor run, of the replan call or of the summary call aborts the
\* run (nothing more is executed), is reported by an error event, the last
\* thing the observer sees, and run returns success false with a plan whose
\* steps and history are empty; a run without failure returns success true and
\* reports no error.
C3_PlannerNeverThrows ==
    /\ ppc # "thrown"
    /\ plannerError # <<>> =>
          /\ ppc \in {"catch", "returned"}
          /\ pc = "none"
    /\ (ppc = "returned" /\ plannerError # <<>>) =>
          /\ ~plannerResult.success
          /\ plannerResult.plan.steps = <<>>
          /\ plannerResult.plan.history = <<>>
          /\ Cardinality(C3_ErrorEvents) = 1
          /\ plannerEvents[Len(plannerEvents)].type = "error"
    /\ (ppc = "returned" /\ plannerError = <<>>) =>
          /\ plannerResult.success
          /\ plannerResult.plan = plan
          /\ C3_ErrorEvents = {}

\* the summary call failed after two steps were done and the plan was replaced
C3_Witness ==
    /\ ppc = "returned"
    /\ plannerError = <<"summary_error">>
    /\ Len(plan.history) >= 2
    /\ rePlanAttempts = 1
    /\ ~plannerResult.success

\* a step's executor run failed
C3_WitnessExecutor ==
    /\ ppc = "returned"
    /\ plannerError = <<"executor_error">>
    /\ Len(plan.history) >= 1
    /\ ~plannerResult.success


\* the status changes a step may make
C11_Transitions ==
    { <<"pending", "in_progress">>, <<"in_progress", "done">>,
      <<"in_progress", "failed">> }

\* the step list keeps its steps; each keeps its status or makes one of the
\* changes above
C11_InPlace ==
    /\ Len(plan'.steps) = Len(plan.steps)
    /\ \A j \in 1..Len(plan.steps) :
          /\ plan'.steps[j].id = plan.steps[j].id
          /\ \/ plan'.steps[j].status = plan.steps[j].status
             \/ <<plan.steps[j].status, plan'.steps[j].status>> \in C11_Transitions

\* a replan: the new list begins with steps of the old list, unchanged and in
\* their order, among them every step that was done; the steps after them are
\* new and are pending or skipped
C11_Replaced ==
    \E n \in 0..Len(plan'.steps) :
        LET kept  == SubSeq(plan'.steps, 1, n)
            added == SubSeq(plan'.steps, n + 1, Len(plan'.steps))
        IN  /\ kept = SelectSeq(plan.steps, LAMBDA st : st \in Range(kept))
            /\ \A j \in 1..Len(plan.steps) :
                  plan.steps[j].status = "done" => plan.steps[j] \in Range(kept)
            /\ \A j \in 1..Len(added) : added[j].status \in {"pending", "skipped"}

\* C11: a step's status only ever changes pending -> in_progress,
\* in_progress -> done or in_progress -> failed, and a step enters the plan
\* pending, or pending or skipped when a replan supplies it; a step that is
\* done, failed or skipped never changes status again, also across replans,
\* which keep every done step as it is.
C11_StatusTransitions ==
    [][CASE ppc = "constructed" ->
                \A j \in 1..Len(plan'.steps) : plan'.steps[j].status = "pending"
         [] ppc = "refine" -> plan' = plan \/ C11_Replaced
         [] OTHER -> C11_InPlace]_vars

\* after a replan that kept a done step and supplied a skipped one, a further
\* step was executed and is done
C11_Witness ==
    /\ rePlanAttempts = 1
    /\ Len(plan.history) >= 2
    /\ \E j \in 1..Len(plan.steps) : plan.steps[j].status = "skipped"
    /\ \E j \in 1..Len(plan.steps) : plan.steps[j].status = "pending"
    /\ Cardinality({ j \in 1..Len(plan.steps) : plan.steps[j].status = "done" }) >= 2


\* the step at position j of p is pending and each of its dependencies, if it
\* has any, is the id of a step of p that is done
C12_CanStart(p, j) ==
    /\ p.steps[j].status = "pending"
    /\ \A x \in 1..Len(p.steps[j].dependencies) :
          \E k \in 1..Len(p.steps) :
              /\ p.steps[k].id = p.steps[j].dependencies[x]
              /\ \A l \in 1..(k - 1) : p.steps[l].id # p.steps[k].id
              /\ p.steps[k].status = "done"

\* C12: at the head of the loop the planner starts the first step, in the
\* plan's current order, that is pending with every dependency done: no such
\* step earlier in the order is passed over, and as long as there is one (a
\* pending step without dependencies is one) a step is started.
C12_FirstEligibleStepIsNext ==
    [][ppc = "loop" =>
          IF \E j \in 1..Len(plan.steps) : C12_CanStart(plan, j)
          THEN /\ ppc' = "start_step"
               /\ C12_CanStart(plan, currentStep')
               /\ \A k \in 1..(currentStep' - 1) : ~C12_CanStart(plan, k)
               /\ plan'.steps = [plan.steps EXCEPT ![currentStep'].status = "in_progress"]
          ELSE /\ ppc' = "final_response"
               /\ plan' = plan]_vars

\* the second step is started while the first, which waits for it, and the
\* third, which could start as well, are pending
C12_Witness ==
    /\ ppc = "start_step"
    /\ currentStep = 2
    /\ Len(plan.steps) = 3
    /\ plan.steps[1].status = "pending"
    /\ plan.steps[1].dependencies = <<"b">>
    /\ plan.steps[3].status = "pending"
    /\ plan.steps[3].dependencies = <<>>


\* no step of the plan can be started: none is pending with every dependency
\* the id of a done step
C13_NothingToStart ==
    \A j \in 1..Len(plan.steps) :
        \/ plan.steps[j].status # "pending"
        \/ \E x \in 1..Len(plan.steps[j].dependencies) :
              \A k \in 1..Len(plan.steps) :
                  (plan.steps[k].id = plan.steps[j].dependencies[x]
                      /\ \A l \in 1..(k - 1) : plan.steps[l].id # plan.steps[k].id)
                  => plan.steps[k].status # "done"

\* C13: a Planner run terminates, for every plan and every sequence of replan
\* responses, provided each awaited call returns or fails: the loop goes round
\* only while some step can be started, and when none can (the plan is
\* complete, or the remaining steps wait for dependencies that are cyclic,
\* dangling or unmet) the run leaves the loop without starting a step and
\* returns.
C13_PlannerTerminates ==
    /\ <>(ppc = "returned")
    /\ [][(ppc = "loop" /\ C13_NothingToStart) =>
             (ppc' = "final_response" /\ plan' = plan /\ pc' = "none")]_vars

\* the run has returned with one step done and the others waiting for each
\* other or for a step that does not exist
C13_Witness ==
    /\ ppc = "returned"
    /\ plannerError = <<>>
    /\ Len(plan.steps) = 3
    /\ plan.steps[1].status = "pending"
    /\ plan.steps[1].dependencies = <<"z">>
    /\ plan.steps[2].status = "done"
    /\ plan.steps[3].status = "pending"
    /\ plan.steps[3].dependencies = <<"a", "b">>


\* the step made of a replacement step of the response
C14_Replacement(u) ==
    [id |-> u.id, description |-> u.description,
     status |-> IF u.status = "skipped" THEN "skipped" ELSE "pending",
     requiredTools |-> u.requiredTools, dependencies |-> <<>>, result |-> <<>>]

\* the replan from plan to plan' leaves the done steps, unchanged and in their
\* order, followed by the replacement steps of some response, and no step that
\* was not done
C14_DoneThenReplacement ==
    LET done == SelectSeq(plan.steps, LAMBDA st : st.status = "done") IN
        /\ \E u \in UpdatedStepLists :
              plan'.steps = done \o [j \in 1..Len(u) |-> C14_Replacement(u[j])]
        /\ \A k \in 1..Len(plan.steps) :
              plan.steps[k].status # "done" => plan.steps[k] \notin Range(plan'.steps)

\* C14: when a replan response says yes and supplies a replacement list (the
\* counter goes up), the new steps are exactly the done steps, unchanged and in
\* their previous order, followed by the replacement steps in the order given,
\* each pending unless marked skipped; every old step that was not done is gone.
C14_ReplanKeepsExactlyDoneSteps ==
    [][rePlanAttempts' = rePlanAttempts + 1 => C14_DoneThenReplacement]_vars

\* the same, for plans whose steps have distinct ids
C14_ReplanWithDistinctIds ==
    [][(/\ rePlanAttempts' = rePlanAttempts + 1
        /\ \A j, k \in 1..Len(plan.steps) :
              plan.steps[j].id = plan.steps[k].id => j = k)
       => C14_DoneThenReplacement]_vars

\* after a replan the plan still holds an old step that was never done, beside
\* the done step of the same id and the replacement
C14_Witness ==
    /\ rePlanAttempts = 1
    /\ ppc = "loop"
    /\ Len(plan.steps) = 3
    /\ plan.steps[1].id = "a"
    /\ plan.steps[1].status = "done"
    /\ plan.steps[2].id = "a"
    /\ plan.steps[2].status = "pending"
    /\ plan.steps[2].description = <<"do", "a">>
    /\ plan.steps[3].description = <<"redo", "d">>


\* the steps of a plan without what execution writes on them (status, result)
C15_StepList(p) ==
    [j \in 1..Len(p.steps) |->
        <<p.steps[j].id, p.steps[j].description, p.steps[j].requiredTools,
          p.steps[j].dependencies>>]

\* the replans announced so far
C15_Replans ==
    Len(SelectSeq(plannerEvents,
                  LAMBDA e : e.type = "thought" /\ e.content = <<"replanning">>))

\* C15: replanning is bounded. The steps are replaced at most maxRePlanAttempts
\* times (3 when not configured); the counter goes up by one on every applied
\* replacement and on nothing else; the model is asked whether to replan only
\* while the counter is below the maximum, and once it has reached it the
\* plan's list of steps never changes again (only status and result do).
C15_ReplanningIsBounded ==
    /\ PlannerExecutor([maxIterationsPerStep |-> 1]).maxRePlanAttempts = 3
    /\ [](/\ rePlanAttempts <= plannerConfig.maxRePlanAttempts
          /\ C15_Replans = rePlanAttempts
          /\ ppc = "refine" => rePlanAttempts < plannerConfig.maxRePlanAttempts)
    /\ [][/\ rePlanAttempts' # rePlanAttempts =>
                (ppc = "refine" /\ rePlanAttempts' = rePlanAttempts + 1)
          /\ (ppc # "constructed" /\ C15_StepList(plan') # C15_StepList(plan)) =>
                rePlanAttempts' = rePlanAttempts + 1
          /\ rePlanAttempts = plannerConfig.maxRePlanAttempts =>
                (ppc' # "refine"
                    /\ (ppc # "constructed" => C15_StepList(plan') = C15_StepList(plan)))]_vars

\* the one allowed replan was applied, and a step of the new plan was executed
\* afterwards without the model being asked again
C15_Witness ==
    /\ plannerConfig.maxRePlanAttempts = 1
    /\ rePlanAttempts = 1
    /\ ppc = "loop"
    /\ Len(plan.history) = 2
    /\ \E j \in 1..Len(plan.steps) :
          plan.steps[j].description = <<"redo", "d">> /\ plan.steps[j].status = "done"
    /\ \E j \in 1..Len(plan.steps) : plan.steps[j].status = "pending"


\* the initial plan call gave no parseable structured plan
C16_NoStructuredPlan ==
    plannerError \in { <<"no_plan_tool_call">>, <<"unexpected_tool_call">> }

\* C16: if the initial plan call yields no parseable structured plan (no tool
\* call, or a call to another tool), the failure is fatal and not recovered: no
\* step is started, no ReAct engine is run, no plan_update is emitted, plan
\* generation is not tried again, and run returns success=false.
C16_PlanGenerationFailureIsFatal ==
    /\ [](C16_NoStructuredPlan =>
            /\ ppc \in {"catch", "returned"}
            /\ plan.steps = <<>>
            /\ currentStep = 0
            /\ pc = "none" /\ invocations = 0 /\ events = <<>>
            /\ \A j \in 1..Len(plannerEvents) :
                  plannerEvents[j].type \notin {"plan_update", "thought"}
            /\ ppc = "returned" =>
                  (plannerResult.success = FALSE /\ plannerResult.plan.steps = <<>>))
    /\ [][/\ ppc # "constructed" => ppc' # "constructed"
          /\ (C16_NoStructuredPlan /\ ppc = "catch") => ppc' = "returned"]_vars

\* run has returned after a plan call that carried no tool call
C16_Witness ==
    /\ ppc = "returned"
    /\ plannerError = <<"no_plan_tool_call">>
    /\ plannerResult.success = FALSE
    /\ Len(plannerEvents) = 1
    /\ plannerEvents[1].type = "error"

\* run has returned after a plan call that called another tool
C16_WitnessOtherTool ==
    /\ ppc = "returned"
    /\ plannerError = <<"unexpected_tool_call">>
    /\ plannerResult.success = FALSE


\* the positions of the steps that are in_progress
C17_InProgress(p) == { j \in 1..Len(p.steps) : p.steps[j].status = "in_progress" }

\* the executor runs started so far
C17_Started ==
    Len(SelectSeq(plannerEvents,
                  LAMBDA e : e.type = "thought" /\ e.content[1] = "executing_step"))

\* C17: plan steps execute strictly sequentially. In every reachable state at
\* most one step is in_progress and at most one ReAct engine run is active, the
\* run of that step; a step is started only when no engine run is active, every
\* step started before has been marked done with its result recorded, and the
\* dependencies of the step are done.
C17_StrictlySequential ==
    /\ [](/\ Cardinality(C17_InProgress(plan)) <= 1
          /\ C17_InProgress(plan) \subseteq {currentStep}
          /\ pc # "none" =>
                (ppc = "executing" /\ C17_InProgress(plan) = {currentStep})
          /\ C17_Started <= Len(plan.history) + 1
          /\ ppc \in {"loop", "refine", "final_response"} =>
                (pc = "none" /\ C17_Started = Len(plan.history)))
    /\ [][C17_InProgress(plan') # C17_InProgress(plan) /\ C17_InProgress(plan') # {} =>
             /\ pc = "none" /\ pc' = "none"
             /\ C17_InProgress(plan) = {}
             /\ C17_Started = Len(plan.history)
             /\ \A j \in 1..Len(plan.history) :
                   \E k \in 1..Len(plan.steps) :
                       /\ plan.steps[k].id = plan.history[j].stepId
                       /\ plan.steps[k].status = "done"
             /\ C17_InProgress(plan') = {currentStep'}
             /\ C1_DependenciesDone(plan, currentStep')]_vars

\* the second step's engine run is under way: one step done, one in_progress,
\* one still pending
C17_Witness ==
    /\ ppc = "executing"
    /\ pc \notin {"none", "constructed", "returned"}
    /\ invocations = 1
    /\ Len(plan.history) = 1
    /\ Len(plan.steps) = 3
    /\ plan.steps[1].status = "done"
    /\ plan.steps[2].status = "in_progress"
    /\ plan.steps[3].status = "pending"


\* the names in the requiredTools of the step whose engine runs
C18_RequiredTools == Range(plan.steps[currentStep].requiredTools)

\* C18: the engine run of a step is scoped to the tools named by the step's
\* requiredTools. While a step with a non-empty requiredTools list executes,
\* the engine holds exactly the planner's tools named in the list and no tool
\* outside the list is executed, whatever names the model proposes; a step with
\* no requiredTools gets the full tool set.
C18_ToolsScopedToStep ==
    (ppc = "executing" /\ pc # "none") =>
        IF C18_RequiredTools # {}
        THEN /\ Range(tools) = Range(plannerTools) \cap C18_RequiredTools
             /\ \A j \in 1..Len(executions) : executions[j].name \in C18_RequiredTools
        ELSE tools = plannerTools

\* the model proposed calculator in a step that requires weather only: the call
\* was answered without executing anything
C18_Witness ==
    /\ ppc = "executing"
    /\ pc = "tool_result"
    /\ plan.steps[currentStep].requiredTools = <<"weather">>
    /\ turn.tool_calls[turn.callIndex].name = "calculator"
    /\ turn.success = FALSE
    /\ executions = <<>>

\* the required tool is executed in such a step
C18_WitnessRequiredTool ==
    /\ ppc = "executing"
    /\ plan.steps[currentStep].requiredTools = <<"weather">>
    /\ Len(executions) = 1
    /\ executions[1].name = "weather"

\* calculator is executed in a step without requiredTools
C18_WitnessFullSet ==
    /\ ppc = "executing"
    /\ plan.steps[currentStep].requiredTools = <<>>
    /\ Len(executions) = 1
    /\ executions[1].name = "calculator"


\* the position of the first token tok in text, 0 when there is none
C19_IndexOf(text, tok) ==
    IF \E i \in 1..Len(text) : text[i] = tok
    THEN CHOOSE i \in 1..Len(text) :
            text[i] = tok /\ \A k \in 1..(i - 1) : text[k] # tok
    ELSE 0

RECURSIVE C19_Split(_)
\* the entries of a rendered transcript, which are separated by "|"
C19_Split(text) ==
    IF C19_IndexOf(text, "|") = 0 THEN <<text>>
    ELSE <<SubSeq(text, 1, C19_IndexOf(text, "|") - 1)>>
            \o C19_Split(SubSeq(text, C19_IndexOf(text, "|") + 1, Len(text)))

\* the results a context carries, read back from its text: what follows "):"
\* in each entry after the header
C19_ContextResults(context) ==
    IF context = <<>> THEN <<>>
    ELSE [j \in 1..Len(C19_Split(Tail(context))) |->
            SubSeq(C19_Split(Tail(context))[j],
                   C19_IndexOf(C19_Split(Tail(context))[j], "):") + 1,
                   Len(C19_Split(Tail(context))[j]))]

\* the step ids a context names, entry by entry
C19_ContextSteps(context) ==
    IF context = <<>> THEN <<>>
    ELSE [j \in 1..Len(C19_Split(Tail(context))) |-> C19_Split(Tail(context))[j][2]]

\* C19: the context handed to the engine of the step being executed carries
\* the recorded result of every step completed earlier in the run, in
\* completion order, and no other result: one entry per completed step, none
\* for the step under way or a pending one; the first step executed receives
\* the empty context. The history records the steps in the order in which
\* their engine runs returned.
C19_ContextIsTheRecordedResults ==
    /\ []((ppc = "executing" /\ pc # "none") =>
            /\ C19_ContextResults(input.context)
                  = [j \in 1..Len(plan.history) |-> plan.history[j].result]
            /\ C19_ContextSteps(input.context)
                  = [j \in 1..Len(plan.history) |-> plan.history[j].stepId]
            /\ Len(plan.history) = 0 <=> input.context = <<>>
            /\ Len(plan.history)
                  = Cardinality({ k \in 1..Len(plan.steps) : plan.steps[k].status = "done" })
            /\ \A k \in 1..Len(plan.steps) :
                  plan.steps[k].status = "done" =>
                      \E j \in 1..Len(plan.history) :
                          /\ plan.history[j].stepId = plan.steps[k].id
                          /\ plan.history[j].result = plan.steps[k].result)
    /\ [][(ppc # "constructed" /\ plan'.history # plan.history) =>
             /\ ppc = "executing" /\ pc = "returned"
             /\ plan'.history = Append(plan.history,
                                       [stepId |-> plan.steps[currentStep].id,
                                        result |-> result])]_vars

\* the third step runs with the results of the first two, which differ, in its
\* context
C19_Witness ==
    /\ ppc = "executing"
    /\ pc = "loop"
    /\ Len(plan.history) = 2
    /\ plan.history[1].result = <<"max_iterations_reached", "1">>
    /\ plan.history[2].result = <<"A">>
    /\ C19_ContextResults(input.context) = << <<"max_iterations_reached", "1">>, <<"A">> >>

\* the first step runs with the empty context
C19_WitnessFirstStep ==
    /\ ppc = "executing"
    /\ pc = "loop"
    /\ plan.history = <<>>
    /\ input.context = <<>>


\* the summary call failed and run has returned
C20_SummaryFailed == ppc = "returned" /\ plannerError = <<"summary_error">>

\* C20: a failure of the final summary call does not erase the step results
\* already collected: the result of every step completed in the run is still
\* carried by the plan that run returns.
C20_SummaryFailureKeepsResults ==
    C20_SummaryFailed =>
        \A j \in 1..Len(plan.history) :
            \E k \in 1..Len(plannerResult.plan.steps) :
                /\ plannerResult.plan.steps[k].id = plan.history[j].stepId
                /\ plannerResult.plan.steps[k].status = "done"
                /\ plannerResult.plan.steps[k].result = plan.history[j].result

\* what is left of the results after a failed summary call: the plan of the
\* last plan_update event carries them, the returned plan is empty
C20_ResultsOnlyInLastPlanUpdate ==
    (C20_SummaryFailed /\ plan.history # <<>>) =>
        /\ plannerResult.plan.steps = <<>>
        /\ plannerResult.plan.history = <<>>
        /\ \E j \in 1..Len(plannerEvents) :
              /\ plannerEvents[j].type = "plan_update"
              /\ plannerEvents[j].plan = plan
              /\ \A k \in (j + 1)..Len(plannerEvents) :
                    plannerEvents[k].type # "plan_update"

\* two steps were completed, the summary call failed, and the returned plan
\* holds no step
C20_Witness ==
    /\ C20_SummaryFailed
    /\ Len(plan.history) = 2
    /\ plan.history[1].result = <<"A">>
    /\ plannerResult.success = FALSE
    /\ plannerResult.plan.steps = <<>>


\* the turn a thought event belongs to
C21_TurnOf(e) ==
    CHOOSE i \in 1..(MaxIterations + DefaultMaxIterations) : IterationId(i) = e.thoughtId

\* the step delivers one more event to the observer
C21_Delivers ==
    /\ Len(events') = Len(events) + 1
    /\ SubSeq(events', 1, Len(events)) = events

\* C21: events are strictly ordered per turn and across turns. The log of
\* delivered events grows by one event at a time; the thought events of a turn
\* come before the turn's tool_call events and those of a later turn after
\* them; in streaming mode the accumulated calls are dispatched only when the
\* turn's chunk sequence has ended; and the next turn begins, without emitting
\* anything, only after the turn's last event was delivered.
C21_EventsStrictlyOrdered ==
    /\ [](/\ \A p, q \in 1..Len(events) :
                (p < q /\ events[p].type = "thought" /\ events[q].type = "thought") =>
                    /\ C21_TurnOf(events[p]) <= C21_TurnOf(events[q])
                    /\ \A r \in p..q :
                          (events[r].type \in {"tool_call", "tool_call_result"}) =>
                              C21_TurnOf(events[p]) < C21_TurnOf(events[q])
          /\ (config.streaming
                /\ pc \in {"final_answer", "dispatch", "execute", "tool_result"}) =>
                    turn.stream = <<>>)
    /\ [][/\ events' = events \/ C21_Delivers
          /\ (C21_Delivers /\ events'[Len(events')].type = "thought") =>
                /\ pc \in {"invoke", "streaming"}
                /\ events'[Len(events')].thoughtId = IterationId(iteration)
          /\ (C21_Delivers /\ events'[Len(events')].type = "tool_call") =>
                /\ pc = "dispatch"
                /\ config.streaming => turn.stream = <<>>
                /\ messages[Len(messages)].role \in {"ai", "tool"}
          /\ (pc # "constructed" /\ iteration' # iteration) =>
                /\ events' = events
                /\ pc = "guard" /\ pc' = "loop"
                /\ turn.stream = <<>> \/ turn.errorMessage # <<>>
                /\ turn.errorMessage = <<>> => turn.callIndex > Len(turn.tool_calls)]_vars

\* a streaming run in its second turn: the first turn's chunks, its completion
\* marker and its two tool calls were delivered before the second turn's chunk
C21_Witness ==
    /\ config.streaming
    /\ iteration = 2
    /\ Len(events) = 8
    /\ events[1].type = "thought" /\ events[1].thoughtId = IterationId(1)
    /\ events[2].type = "thought" /\ ~events[2].isComplete
    /\ events[3].type = "thought" /\ events[3].isComplete
    /\ events[4].type = "tool_call"
    /\ events[5].type = "tool_call_result"
    /\ events[6].type = "tool_call"
    /\ events[7].type = "tool_call_result"
    /\ events[8].type = "thought" /\ events[8].thoughtId = IterationId(2)


\* the tool_call, tool_call_result and final_result events, in order
C22_Log ==
    SelectSeq(events,
              LAMBDA e : e.type \in {"tool_call", "tool_call_result", "final_result"})

\* every tool_call is followed by its tool_call_result (same call id, same tool
\* name) before any other tool_call and before final_result, every
\* tool_call_result answers the tool_call just before it, and final_result is
\* last
C22_Paired ==
    \A j \in 1..Len(C22_Log) :
        /\ C22_Log[j].type = "tool_call" =>
              IF j < Len(C22_Log)
              THEN /\ C22_Log[j + 1].type = "tool_call_result"
                   /\ C22_Log[j + 1].toolCallId = C22_Log[j].toolCallId
                   /\ C22_Log[j + 1].toolName = C22_Log[j].toolName
              ELSE pc \in {"execute", "tool_result"}
        /\ C22_Log[j].type = "tool_call_result" =>
              (j > 1 /\ C22_Log[j - 1].type = "tool_call")
        /\ C22_Log[j].type = "final_result" => (j = Len(C22_Log) /\ pc = "returned")

RECURSIVE C22_NonFinalProposed(_)
\* the calls of other tools than the final-answer tool in the model's answers
C22_NonFinalProposed(ms) ==
    IF ms = <<>> THEN 0
    ELSE Len(SelectSeq(Head(ms).tool_calls, LAMBDA c : c.name # FinalAnswerToolName))
            + C22_NonFinalProposed(Tail(ms))

\* the model's answers that hold no call of the final-answer tool
C22_AnswersWithoutFinalCall ==
    SelectSeq(AssistantMessages,
              LAMBDA m : \A j \in 1..Len(m.tool_calls) :
                            m.tool_calls[j].name # FinalAnswerToolName)

\* C22 as stated: tool_call and tool_call_result events come in pairs, and at
\* the end of a run the two counts are equal and equal the number of non-final
\* tool calls the model proposed.
C22_PairsMatchProposedCalls ==
    /\ C22_Paired
    /\ pc = "returned" =>
          /\ Len(ToolCallEvents) = Len(ToolCallResultEvents)
          /\ Len(ToolCallEvents) = C22_NonFinalProposed(AssistantMessages)

\* C22, amended: tool_call and tool_call_result events come in pairs as stated,
\* and at the end of a run the two counts are equal and equal the number of
\* tool calls proposed in the answers that hold no final-answer call: the calls
\* proposed beside a final-answer call are never dispatched.
C22_PairsMatchDispatchedCalls ==
    /\ C22_Paired
    /\ pc = "returned" =>
          /\ Len(ToolCallEvents) = Len(ToolCallResultEvents)
          /\ Len(ToolCallEvents) = C22_NonFinalProposed(C22_AnswersWithoutFinalCall)

\* weather, then calculator, then the final answer: exactly two pairs before
\* the one final_result
C22_Witness ==
    /\ pc = "returned"
    /\ Len(C22_Log) = 5
    /\ C22_Log[1].type = "tool_call" /\ C22_Log[1].toolName = "weather"
    /\ C22_Log[2].type = "tool_call_result" /\ C22_Log[2].success
    /\ C22_Log[3].type = "tool_call" /\ C22_Log[3].toolName = "calculator"
    /\ C22_Log[4].type = "tool_call_result"
    /\ C22_Log[5].type = "final_result" /\ C22_Log[5].content = <<"A">>
    /\ C22_NonFinalProposed(AssistantMessages) = 2

\* the model proposed weather beside the final answer: the run ended without a
\* pair for that call
C22_WitnessBesideFinalCall ==
    /\ pc = "returned"
    /\ Len(ToolCallEvents) = 0
    /\ C22_NonFinalProposed(AssistantMessages) = 1
    /\ NumEvents("final_result") = 1


\* the positions of the forwarded chunks and of the completion markers of turn i
C23_Chunks(i) ==
    { p \in 1..Len(events) :
        /\ events[p].type = "thought"
        /\ events[p].thoughtId = IterationId(i)
        /\ ~events[p].isComplete }
C23_Markers(i) ==
    { p \in 1..Len(events) :
        /\ events[p].type = "thought"
        /\ events[p].thoughtId = IterationId(i)
        /\ events[p].isComplete }

\* turn i is closed: one completion marker, with an empty chunk, right after
\* the turn's last forwarded chunk
C23_Closed(i) ==
    /\ Cardinality(C23_Markers(i)) = 1
    /\ \A q \in C23_Markers(i) :
          /\ events[q].chunk = <<>>
          /\ q - 1 \in C23_Chunks(i)
          /\ \A p \in C23_Chunks(i) : p < q

\* a chunk with text is forwarded as one thought event of the current turn
C23_ForwardsChunk ==
    (/\ config.streaming /\ pc = "streaming" /\ turn.stream # <<>>
     /\ turn'.stream = Tail(turn.stream)
     /\ Head(turn.stream).content # <<>>)
    => events' = Append(events, [type |-> "thought",
                                 thoughtId |-> IterationId(iteration),
                                 chunk |-> Head(turn.stream).content,
                                 isComplete |-> FALSE])

\* C23: in streaming mode every text chunk is forwarded individually as a
\* thought event with the turn's iteration identifier (one identifier per turn,
\* different turns different identifiers), and every turn that forwarded at
\* least one chunk is closed by exactly one completion marker with that
\* identifier, after the turn's last chunk and before any event of the next
\* turn.
C23_EveryStreamedTurnIsClosed ==
    /\ [](config.streaming =>
            \A i \in 1..(MaxIterations + 1) :
                /\ C23_Chunks(i) # {} =>
                      \/ (iteration = i /\ pc = "streaming")
                      \/ C23_Closed(i)
                /\ C23_Markers(i) # {} => C23_Chunks(i) # {}
                /\ \A p \in C23_Chunks(i), q \in 1..Len(events) :
                      (events[q].type = "thought" /\ events[q].thoughtId # IterationId(i))
                          => (q < p <=> C21_TurnOf(events[q]) < i))
    /\ [][C23_ForwardsChunk]_vars

\* the same, for the turns whose chunk sequence did not fail
C23_TurnsWithoutFailureAreClosed ==
    /\ [](config.streaming =>
            \A i \in 1..(MaxIterations + 1) :
                /\ C23_Chunks(i) # {} =>
                      \/ (iteration = i /\ pc = "streaming")
                      \/ C23_Closed(i)
                      \/ /\ C23_Markers(i) = {}
                         /\ \/ (iteration = i /\ pc = "catch")
                            \/ \E q \in 1..Len(events) :
                                  /\ events[q] = ErrorEvent(IterationFailedMessage(i,
                                                                <<"model_error">>))
                                  /\ q - 1 \in C23_Chunks(i)
                /\ C23_Markers(i) # {} => C23_Chunks(i) # {}
                /\ \A p \in C23_Chunks(i), q \in 1..Len(events) :
                      (events[q].type = "thought" /\ events[q].thoughtId # IterationId(i))
                          => (q < p <=> C21_TurnOf(events[q]) < i))
    /\ [][C23_ForwardsChunk]_vars

\* the first turn forwarded two chunks and failed: the second turn forwards its
\* chunks and no completion marker of the first turn exists
C23_Witness ==
    /\ config.streaming
    /\ iteration = 2
    /\ Cardinality(C23_Chunks(1)) = 2
    /\ C23_Markers(1) = {}
    /\ C23_Chunks(2) # {}


RECURSIVE C24_Flatten(_)
\* the tool-call chunks of a chunk sequence, in arrival order
C24_Flatten(stream) ==
    IF stream = <<>> THEN <<>>
    ELSE Head(stream).tool_call_chunks \o C24_Flatten(Tail(stream))

RECURSIVE C24_Fragments(_, _)
\* the concatenation, in arrival order, of the arguments fragments that carry
\* index k
C24_Fragments(chunks, k) ==
    IF chunks = <<>> THEN <<>>
    ELSE (IF Head(chunks).index = k THEN Head(chunks).args ELSE <<>>)
            \o C24_Fragments(Tail(chunks), k)

RECURSIVE C24_Accumulate(_, _)
\* what the loop over a chunk sequence accumulates
C24_Accumulate(acc, stream) ==
    IF stream = <<>> THEN acc
    ELSE C24_Accumulate(IF Len(Head(stream).tool_call_chunks) > 0
                        THEN mergeToolCalls(acc, Head(stream).tool_call_chunks)
                        ELSE acc,
                        Tail(stream))

\* the arguments text accumulated for index k, empty when there is none
C24_ArgsOf(acc, k) ==
    IF \E j \in 1..Len(acc) : acc[j].index = k
    THEN acc[CHOOSE j \in 1..Len(acc) : acc[j].index = k].args
    ELSE <<>>

\* the chunk sequence of the turn has just been opened
C24_Opened ==
    /\ config.streaming /\ pc = "streaming"
    /\ turn.content = <<>> /\ turn.accumulatedToolCalls = <<>>

\* C24: for any chunk sequence, also one where chunks of different indexes
\* interleave, the call accumulated for an index has as arguments text the
\* concatenation, in arrival order, of exactly the fragments that carried that
\* index, and that text parses to the same value as the call delivered in one
\* piece.
C24_FragmentsConcatenatedPerIndex ==
    /\ [](C24_Opened =>
            \A r \in Responses(stub, iteration), k \in Chunkings :
                StreamOf(r, k) = turn.stream =>
                    LET acc   == C24_Accumulate(<<>>, turn.stream)
                        whole == C24_Accumulate(<<>>, StreamOf(r, "whole"))
                    IN  /\ Len(acc) = Len(r.tool_calls)
                        /\ \A j \in 1..Len(acc) :
                              /\ acc[j].args
                                    = C24_Fragments(C24_Flatten(turn.stream), acc[j].index)
                              /\ ParseArgs(acc[j].args).ok
                              /\ ParseArgs(acc[j].args) = ParseArgs(whole[j].args)
                              /\ ParseArgs(acc[j].args).value = r.tool_calls[j].args)
    /\ [][(pc = "streaming" /\ turn'.stream # turn.stream /\ pc' = "streaming") =>
             \A k \in 0..(MaxCalls - 1) :
                 C24_ArgsOf(turn'.accumulatedToolCalls, k)
                    = C24_ArgsOf(turn.accumulatedToolCalls, k)
                        \o C24_Fragments(Head(turn.stream).tool_call_chunks, k)]_vars

\* two calls arrive interleaved: both have their first fragment, the rest of
\* each is still to come
C24_Witness ==
    /\ config.streaming /\ pc = "streaming"
    /\ Len(turn.stream) = 2
    /\ Len(turn.accumulatedToolCalls) = 2
    /\ turn.accumulatedToolCalls[1].args = <<"{">>
    /\ turn.accumulatedToolCalls[2].args = <<"{">>
    /\ turn.accumulatedToolCalls[1].name = "weather"
    /\ turn.accumulatedToolCalls[2].name = "calculator"

\* the same two calls, accumulated: each has its own arguments
C24_WitnessAccumulated ==
    /\ config.streaming /\ pc = "streaming"
    /\ turn.stream = <<>>
    /\ Len(turn.accumulatedToolCalls) = 2
    /\ turn.accumulatedToolCalls[1].args = <<"{", "city=X", "}">>
    /\ turn.accumulatedToolCalls[2].args = <<"{", "n=1", "}">>


\* the indexes of a sequence of chunks or of accumulated calls
C25_Indexes(seq) == { seq[j].index : j \in 1..Len(seq) }

\* the first chunk of a sequence that carries index k
C25_First(chunks, k) ==
    chunks[CHOOSE j \in 1..Len(chunks) :
              chunks[j].index = k /\ \A l \in 1..(j - 1) : chunks[l].index # k]

\* the tool_call events of the turn whose n calls were dispatched last
C25_LastToolCalls(n) == SubSeq(ToolCallEvents, Len(ToolCallEvents) - n + 1, Len(ToolCallEvents))

\* C25: the accumulator holds exactly one call per distinct chunk index, in
\* ascending index order, with id and name as first seen for the index; and a
\* streaming turn's calls are dispatched in that order.
C25_OneCallPerIndexInOrder ==
    /\ [](config.streaming =>
            /\ \A j, l \in 1..Len(turn.accumulatedToolCalls) :
                  j < l => turn.accumulatedToolCalls[j].index
                              < turn.accumulatedToolCalls[l].index
            /\ (pc = "guard" /\ turn.errorMessage = <<>>
                  /\ AfterAssistantMessage(turn.tool_calls) = "dispatch") =>
                  /\ Len(turn.tool_calls) = Len(turn.accumulatedToolCalls)
                  /\ Len(ToolCallEvents) >= Len(turn.tool_calls)
                  /\ \A j \in 1..Len(turn.tool_calls) :
                        /\ C25_LastToolCalls(Len(turn.tool_calls))[j].toolName
                              = turn.accumulatedToolCalls[j].name
                        /\ turn.accumulatedToolCalls[j].id # <<>> =>
                              C25_LastToolCalls(Len(turn.tool_calls))[j].toolCallId
                                 = turn.accumulatedToolCalls[j].id)
    /\ [][(pc = "streaming" /\ turn'.stream # turn.stream /\ pc' = "streaming") =>
             LET acc    == turn.accumulatedToolCalls
                 acc2   == turn'.accumulatedToolCalls
                 chunks == Head(turn.stream).tool_call_chunks
             IN  /\ C25_Indexes(acc2) = C25_Indexes(acc) \cup C25_Indexes(chunks)
                 /\ Cardinality(C25_Indexes(acc2)) = Len(acc2)
                 /\ \A j \in 1..Len(acc2) :
                       IF acc2[j].index \in C25_Indexes(acc)
                       THEN \E l \in 1..Len(acc) :
                               /\ acc[l].index = acc2[j].index
                               /\ acc[l].id # <<>> => acc2[j].id = acc[l].id
                               /\ acc[l].name # "" => acc2[j].name = acc[l].name
                       ELSE /\ acc2[j].id = C25_First(chunks, acc2[j].index).id
                            /\ acc2[j].name = C25_First(chunks, acc2[j].index).name]_vars

\* the chunk of index 1 arrived before the chunk of index 0, and the two calls
\* were dispatched with index 0 first
C25_Witness ==
    /\ config.streaming /\ pc = "guard"
    /\ iteration = 1
    /\ Len(turn.accumulatedToolCalls) = 2
    /\ turn.accumulatedToolCalls[1].name = "weather"
    /\ turn.accumulatedToolCalls[2].name = "calculator"
    /\ Len(ToolCallEvents) = 2
    /\ ToolCallEvents[1].toolName = "weather"
    /\ ToolCallEvents[2].toolName = "calculator"

\* index 1 is accumulated and index 0 is still to come
C25_WitnessOutOfOrder ==
    /\ config.streaming /\ pc = "streaming"
    /\ Len(turn.accumulatedToolCalls) = 1
    /\ turn.accumulatedToolCalls[1].index = 1
    /\ Len(turn.stream) = 3
    /\ turn.stream[1].tool_call_chunks[1].index = 0


\* the calls of an assistant message without their ids
C26_NamesAndArguments(m) ==
    [j \in 1..Len(m.tool_calls) |->
        [name |-> m.tool_calls[j].name, args |-> m.tool_calls[j].args]]

\* C26: replaying an identical chunk sequence against a fresh accumulator
\* twice yields identical merged calls (same ids, names and arguments), also
\* when the id is synthesized: the turns of a run whose model streams the same
\* chunk sequence, without ids, in every turn record the same calls.
C26_ReplayYieldsIdenticalCalls ==
    (stub = "replay" /\ config.streaming) =>
        \A i, j \in 1..Len(AssistantMessages) :
            AssistantMessages[i].tool_calls = AssistantMessages[j].tool_calls

\* C26, without the ids: the replays agree on the names and the arguments, and
\* on the ids whenever the clock read the same at the end of both streams.
C26_ReplayYieldsIdenticalNamesAndArguments ==
    /\ (stub = "replay" /\ config.streaming) =>
          \A i, j \in 1..Len(AssistantMessages) :
              C26_NamesAndArguments(AssistantMessages[i])
                 = C26_NamesAndArguments(AssistantMessages[j])
    /\ [][(stub = "replay" /\ pc = "streaming" /\ pc' # "streaming"
             /\ turn.stream = <<>> /\ Len(AssistantMessages) = 1 /\ now' = 0) =>
             messages'[Len(messages')].tool_calls = AssistantMessages[1].tool_calls]_vars

\* the same chunk sequence was accumulated in two turns and the two merged
\* calls of index 0 carry different ids
C26_Witness ==
    /\ stub = "replay" /\ config.streaming
    /\ Len(AssistantMessages) = 2
    /\ Len(AssistantMessages[1].tool_calls) = 2
    /\ C26_NamesAndArguments(AssistantMessages[1])
          = C26_NamesAndArguments(AssistantMessages[2])
    /\ AssistantMessages[1].tool_calls[1].id # AssistantMessages[2].tool_calls[1].id


\* the error events handed to the observer
C27_ErrorEvents == SelectSeq(events, LAMBDA e : e.type = "error")

\* C27: when the accumulated arguments text of a call does not parse at stream
\* end, the failure is reported through an error event, that call is never
\* executed with garbled or defaulted arguments, and only that call is lost:
\* the other call of the same turn is still dispatched and the run continues.
C27_MalformedCallIsLocal ==
    (stub = "garbled" /\ pc \in {"guard", "fallback", "returned"}) =>
        /\ Len(C27_ErrorEvents) >= completedIterations
        /\ \A j \in 1..Len(executions) : executions[j].args = <<"city=X">>
        /\ Len(ToolCallEvents) = completedIterations
        /\ Len(executions) = completedIterations
        /\ pc # "thrown"

\* C27, as the code has it: the failure is reported by one error event per
\* turn, nothing is executed with garbled or defaulted arguments and the run
\* continues, but no call of the turn is dispatched and the turn leaves no
\* assistant message.
C27_MalformedCallAbandonsTurn ==
    /\ pc # "thrown"
    /\ stub = "garbled" =>
          /\ executions = <<>>
          /\ ToolCallEvents = <<>>
          /\ AssistantMessages = <<>>
          /\ pc \in {"guard", "fallback", "returned"} =>
                /\ Len(C27_ErrorEvents) = completedIterations
                /\ \A j \in 1..Len(C27_ErrorEvents) :
                      C27_ErrorEvents[j]
                         = ErrorEvent(IterationFailedMessage(j, <<"parse_error">>))

\* a turn whose second call did not parse has ended and the next turn runs
C27_Witness ==
    /\ stub = "garbled"
    /\ iteration = 2 /\ pc = "streaming"
    /\ Len(C27_ErrorEvents) = 1
    /\ Len(turn.accumulatedToolCalls) = 2
    /\ ParseArgs(turn.accumulatedToolCalls[1].args).ok
    /\ ~ParseArgs(turn.accumulatedToolCalls[2].args).ok


\* the positions of the tool-result messages in the conversation
C28_ToolPositions == { p \in 1..Len(messages) : messages[p].role = "tool" }

\* the assistant message that precedes position p
C28_AssistantBefore(p) ==
    messages[CHOOSE q \in 1..(p - 1) :
                /\ messages[q].role = "ai"
                /\ \A r \in (q + 1)..(p - 1) : messages[r].role # "ai"]

\* the ids the assistant message carries for its calls
C28_IdsOf(m) == { m.tool_calls[j].id : j \in 1..Len(m.tool_calls) }

\* the events and the message of each call carry one id, and every call whose
\* tool_call_result event was emitted has its tool-result message once the
\* dispatch has moved on
C28_OneIdPerCall ==
    /\ Len(ToolCallResultEvents) <= Len(ToolCallEvents)
    /\ Len(ToolCallEvents) <= Len(ToolCallResultEvents) + 1
    /\ Len(ToolMessages) = Len(ToolCallResultEvents)
    /\ pc \in {"guard", "loop", "fallback", "returned"} =>
          Len(ToolCallResultEvents) = Len(ToolCallEvents)
    /\ \A k \in 1..Len(ToolCallResultEvents) :
          /\ ToolCallEvents[k].toolCallId = ToolCallResultEvents[k].toolCallId
          /\ ToolMessages[k].tool_call_id = ToolCallResultEvents[k].toolCallId

\* C28: every dispatched call yields exactly one tool-result message, linked
\* by the id that the preceding assistant message carries for that call; two
\* distinct calls of one run never share an id, also when the id is
\* synthesized; the tool_call event, the tool_call_result event and the
\* tool-result message of one call carry the same id.
C28_LinkageIsUnambiguous ==
    /\ C28_OneIdPerCall
    /\ \A p \in C28_ToolPositions :
          /\ \E q \in 1..(p - 1) : messages[q].role = "ai"
          /\ messages[p].tool_call_id \in C28_IdsOf(C28_AssistantBefore(p))
    /\ \A p, q \in C28_ToolPositions :
          p # q => messages[p].tool_call_id # messages[q].tool_call_id

\* the id was given by the model
C28_Given(id) == id # <<>> /\ Head(id) = "id"

\* C28, for the calls to which the model gave an id: the linkage is unambiguous;
\* and for every call the two events and the message carry one id.
C28_LinkageOfGivenIds ==
    /\ C28_OneIdPerCall
    /\ \A p \in C28_ToolPositions :
          /\ \E q \in 1..(p - 1) : messages[q].role = "ai"
          /\ C28_Given(messages[p].tool_call_id) =>
                messages[p].tool_call_id \in C28_IdsOf(C28_AssistantBefore(p))
    /\ \A p, q \in C28_ToolPositions :
          (p # q /\ C28_Given(messages[p].tool_call_id)) =>
              messages[p].tool_call_id # messages[q].tool_call_id

\* buffered mode, two calls without ids in one turn: both tool-result messages
\* carry the id made from the clock, which read the same for both, and the
\* assistant message carries no id
C28_Witness ==
    /\ ~config.streaming
    /\ Len(ToolMessages) = 2
    /\ ToolMessages[1].tool_call_id = ToolMessages[2].tool_call_id
    /\ Len(AssistantMessages) = 1
    /\ C28_IdsOf(AssistantMessages[1]) = {<<>>}

\* streaming mode, calls without ids in two turns: the clock read the same at
\* both stream ends and the calls of index 0 share the synthesized id
C28_WitnessStreaming ==
    /\ config.streaming
    /\ Len(AssistantMessages) = 2
    /\ Len(ToolMessages) >= 2
    /\ \E p, q \in C28_ToolPositions :
          /\ p # q
          /\ messages[p].tool_call_id = messages[q].tool_call_id
          /\ messages[p].tool_call_id = SynthesizedId(0, 0)


\* C29: the conversation of one engine run is append-only: it starts with the
\* system message and the initial user message, and every step leaves the
\* messages it found in place and in order, adding at most one at the end.
C29_ConversationIsAppendOnly ==
    /\ [](pc # "constructed" =>
            /\ Len(messages) >= 2
            /\ messages[1] = SystemMessage(<<"system_prompt">>)
            /\ messages[2].role = "human")
    /\ [][/\ Len(messages') >= Len(messages)
          /\ SubSeq(messages', 1, Len(messages)) = messages
          /\ pc # "constructed" => Len(messages') <= Len(messages) + 1]_vars

\* a model turn, a tool observation and an error recovery have each added
\* their message
C29_Witness ==
    /\ Len(messages) >= 5
    /\ \E p \in 3..Len(messages) : messages[p].role = "ai"
    /\ \E p \in 3..Len(messages) : messages[p].role = "tool"
    /\ \E p \in 3..Len(messages) : messages[p].role = "human"


\* C30: cancellation is cooperative: once a cancellation request has arrived,
\* the engine observes it at the top of the next loop iteration and
\* immediately before dispatching the next tool call, so it starts no further
\* model invocation and no further tool call; the request itself pre-empts
\* nothing that is in flight.
C30_CancellationIsCooperative ==
    /\ [][cancelRequested =>
             /\ pc = "loop" => pc' \notin {"invoke", "stream_open"}
             /\ pc = "dispatch" => pc' # "execute"]_vars
    /\ [][cancelRequested' # cancelRequested =>
             /\ pc' = pc /\ turn' = turn
             /\ messages' = messages /\ events' = events]_vars

\* C30, the part the code has: a request pre-empts nothing.
C30_NothingIsPreempted ==
    [][cancelRequested' # cancelRequested =>
          /\ pc' = pc /\ turn' = turn
          /\ messages' = messages /\ events' = events]_vars

\* the request has arrived and the engine is at the top of its second loop
\* iteration, with an iteration left to run
C30_Witness ==
    /\ cancelRequested
    /\ pc = "loop"
    /\ iteration = 2
    /\ LoopCondition(iteration, config.maxIterations)


\* C31: the success flag tells whether the plan completed: run returns
\* success=true only if every step of the returned plan is done or skipped; a
\* run that stopped because no remaining step was eligible does not return
\* success=true.
C31_SuccessMeansComplete ==
    (ppc = "returned" /\ plannerResult.success) => isPlanComplete(plannerResult.plan)

\* C31, as the code has it: success=true says that the loop ended, with the
\* plan complete or with no step eligible, and that the summary was made.
C31_SuccessMeansLoopEnded ==
    /\ (ppc = "returned" /\ plannerResult.success) =>
          /\ plannerResult.plan = plan
          /\ isPlanComplete(plan) \/ getNextStep(plan) = 0
          /\ plannerError = <<>>
    /\ (ppc = "returned" /\ ~plannerResult.success) => plannerError # <<>>

\* run returned success=true with a step still pending: its dependency names
\* no step of the plan
C31_Witness ==
    /\ ppc = "returned"
    /\ plannerResult.success
    /\ Len(plannerResult.plan.steps) = 1
    /\ plannerResult.plan.steps[1].status = "pending"
    /\ plannerResult.plan.steps[1].dependencies = <<"z">>

\* run returned success=true with a step done and a step still pending
C31_WitnessPartWay ==
    /\ ppc = "returned"
    /\ plannerResult.success
    /\ \E j \in 1..Len(plannerResult.plan.steps) :
          plannerResult.plan.steps[j].status = "done"
    /\ \E j \in 1..Len(plannerResult.plan.steps) :
          plannerResult.plan.steps[j].status = "pending"


\* buffered mode: the model's turn has ended with neither text nor tool calls
C32_EmptyTurn ==
    /\ ~config.streaming
    /\ pc = "guard"
    /\ turn.errorMessage = <<>>
    /\ turn.content = <<>>
    /\ Len(turn.tool_calls) = 0

\* the final_result events
C32_FinalResults == SelectSeq(events, LAMBDA e : e.type = "final_result")

C33_OnlyAnEmptyModelTurnStopsEarly ==
    [][(pc = "guard" /\ pc' = "fallback") =>
          /\ ~config.streaming
          /\ turn.errorMessage = <<>>
          /\ turn.content = <<>>
          /\ Len(turn.tool_calls) = 0]_vars

\* C33, as the code has it: the loop stops early exactly when the last message
\* of the conversation, whoever wrote it, has neither text nor tool calls; that
\* is never the corrective message of a failed invocation, and it is the
\* tool-result message of the turn's last call when the tool returned nothing.
C33_EmptyLastMessageStopsEarly ==
    [][pc = "guard" =>
          /\ pc' = "fallback" <=>
                /\ ~config.streaming
                /\ messages[Len(messages)].content = <<>>
                /\ Len(messages[Len(messages)].tool_calls) = 0
          /\ turn.errorMessage # <<>> => pc' # "fallback"
          /\ (pc' = "fallback" /\ Len(turn.tool_calls) > 0) =>
                /\ messages[Len(messages)].role = "tool"
                /\ turn.observation = <<>>]_vars

\* buffered mode: the only call of the first turn was dispatched, the tool
\* returned the empty string, and the loop has stopped with a turn to spare
C33_Witness ==
    /\ ~config.streaming
    /\ pc = "fallback"
    /\ config.maxIterations = 2
    /\ iteration = 1
    /\ Len(executions) = 1
    /\ ~executions[1].threw
    /\ messages[Len(messages)].role = "tool"
    /\ messages[Len(messages)].content = <<>>


\* ------------------------------------------------------------ ReActParser

\* what the fields of a JavaScript value hold: "undefined" is a missing field,
\* "empty" the empty string, "text" any other string, "no_name" an object that is
\* no action, "valid" an object with a name and arguments
JsScalar(type) ==
    [type |-> type, thought |-> "undefined", action |-> "undefined",
     final_answer |-> "undefined"]

\* the values a caller can pass and JSON.parse can return
JsValues ==
    [type : {"object"},
     thought : {"undefined", "number", "text"},
     action : {"undefined", "null", "no_name", "valid"},
     final_answer : {"undefined", "null", "number", "empty", "text"}]
        \cup {JsScalar("null"), JsScalar("number")}

\* a piece of a string: white space, a code fence marked json, a bare code
\* fence, text that is not JSON, or the JSON text of a value
Piece(kind) == [kind |-> kind, value |-> JsScalar("undefined")]
Json(value) == [kind |-> "json", value |-> value]

\* what may stand before and after the body of a model's answer
Openings ==
    {<<>>, <<Piece("ws")>>, <<Piece("ws"), Piece("fence_json"), Piece("ws")>>,
     <<Piece("fence"), Piece("ws")>>, <<Piece("fence"), Piece("word"), Piece("ws")>>}
Closings == {<<>>, <<Piece("ws"), Piece("fence"), Piece("ws")>>, <<Piece("fence")>>}

\* the outputs parse is given: values, and strings
Outputs ==
    { [form |-> "value", value |-> v, text |-> <<>>] : v \in JsValues }
        \cup { [form |-> "string", value |-> JsScalar("undefined"),
                text |-> o \o b \o c] :
                 o \in Openings, c \in Closings,
                 b \in {<<>>, <<Piece("word")>>} \cup { <<Json(v)>> : v \in JsValues } }

\* String.prototype.trim
RECURSIVE trim(_)
trim(text) ==
    IF text = <<>> THEN <<>>
    ELSE IF text[1].kind = "ws" THEN trim(Tail(text))
    ELSE IF text[Len(text)].kind = "ws" THEN trim(SubSeq(text, 1, Len(text) - 1))
    ELSE text

\* JSON.parse: <<value>>, or <<>> when it throws
JSONparse(text) ==
    IF Len(trim(text)) = 1 /\ trim(text)[1].kind = "json"
    THEN <<trim(text)[1].value>>
    ELSE <<>>

\* parseJsonSafe: the value, or <<>> for null
parseJsonSafe(jsonString) ==
    LET cleaned == trim(jsonString)
        opened ==
            IF cleaned # <<>> /\ cleaned[1].kind \in {"fence_json", "fence"}
            THEN Tail(cleaned)
            ELSE cleaned
        closed ==
            IF opened # <<>> /\ opened[Len(opened)].kind = "fence"
            THEN SubSeq(opened, 1, Len(opened) - 1)
            ELSE opened
        data == JSONparse(trim(closed))
    IN  IF data = <<>> \/ data[1].type = "null" THEN <<>> ELSE data

\* ReActOutputSchema accepts the value
ReActOutputSchema(data) ==
    /\ data.type = "object"
    /\ data.thought = "text"
    /\ data.action \in {"undefined", "valid"}
    /\ data.final_answer \in {"undefined", "empty", "text"}

\* a value as an if or a ! sees it
Truthy(v) == v \notin {"undefined", "null", "empty"}

\* the same test, with the empty string taken for a value like any other
C34_Present(v) == v \notin {"undefined", "null"}

ReActOutput(thought, action, final_answer) ==
    [thought |-> thought, action |-> action, final_answer |-> final_answer]

ParseFailure(error) == [success |-> FALSE, data |-> <<>>, error |-> error]
ParseSuccess(data) == [success |-> TRUE, data |-> <<data>>, error |-> ""]

\* the part of parse after the JSON step
parseData(data, both) ==
    IF ~ReActOutputSchema(data) THEN ParseFailure("validation")
    ELSE LET parsed == ReActOutput(data.thought, data.action, data.final_answer)
         IN  IF ~Truthy(parsed.action) /\ ~Truthy(parsed.final_answer)
             THEN ParseFailure("action_or_final_answer")
             ELSE IF both
             THEN ParseSuccess(ReActOutput(parsed.thought, parsed.action, "undefined"))
             ELSE ParseSuccess(parsed)

\* ReActParser.parse
parse(o) ==
    IF o.form = "string"
    THEN LET data == parseJsonSafe(o.text)
         IN  IF data = <<>> THEN ParseFailure("json")
             ELSE parseData(data[1], Truthy(data[1].action) /\ Truthy(data[1].final_answer))
    ELSE parseData(o.value, Truthy(o.value.action) /\ Truthy(o.value.final_answer))

isFinalAnswer(o) == o.final_answer # "undefined" /\ o.final_answer # "null"

isAction(o) == o.action # "undefined" /\ o.action # "null"

\* no ReActExecutor and no PlannerExecutor: the parser is used on its own
NoExecutorNoPlanner ==
    /\ config = [maxIterations |-> 0, streaming |-> FALSE]
    /\ tools = <<>>
    /\ input = [input |-> <<>>, context |-> <<>>]
    /\ stub = "none"
    /\ pc = "none"
    /\ iteration = 0
    /\ completedIterations = 0
    /\ messages = <<>>
    /\ iterationHistory = <<>>
    /\ events = <<>>
    /\ turn = NoTurn
    /\ result = <<>>
    /\ invocations = 0
    /\ executions = <<>>
    /\ now = 0
    /\ cancelRequested = FALSE
    /\ NoPlanner

\* a parser is constructed and a caller holds an output for it
ParserInit ==
    /\ NoExecutorNoPlanner
    /\ parserPc = "given"
    /\ output \in Outputs
    /\ parseResult = <<>>
    /\ observer = {}
    /\ NoCodingAgent

\* the caller calls parse
Parse ==
    /\ parserPc = "given"
    /\ parseResult' = parse(output)
    /\ parserPc' = "parsed"
    /\ UNCHANGED <<engineVars, plannerVars, output, observer, agentVars>>

ParserSpec == ParserInit /\ [][Parse]_vars

\* C34: parse rejects an output that has neither action nor final_answer; for
\* an output that has both it returns success with the action kept and
\* final_answer removed; so every successful parse result carries exactly one of
\* action and final_answer, and isAction and isFinalAnswer are never both true
\* for it.
C34_ExactlyOneOfActionAndFinalAnswer ==
    parserPc = "parsed" =>
        LET given == IF output.form = "string" THEN parseJsonSafe(output.text)
                     ELSE <<output.value>>
        IN  /\ (given # <<>> /\ ~C34_Present(given[1].action) /\ ~C34_Present(given[1].final_answer))
                => ~parseResult.success
            /\ (given # <<>> /\ ReActOutputSchema(given[1])
                    /\ C34_Present(given[1].action) /\ C34_Present(given[1].final_answer))
                => /\ parseResult.success
                   /\ parseResult.data[1].action = given[1].action
                   /\ parseResult.data[1].final_answer = "undefined"
            /\ parseResult.success
                => /\ isAction(parseResult.data[1]) # isFinalAnswer(parseResult.data[1])
                   /\ ~(isAction(parseResult.data[1]) /\ isFinalAnswer(parseResult.data[1]))

\* C34, as the code has it: the same with "has" read as "is truthy": a
\* successful result holds exactly one of a truthy action and a truthy
\* final_answer, and the two tests are both true exactly for an action that
\* came with an empty final_answer.
C34_ExactlyOneTruthy ==
    parserPc = "parsed" =>
        LET given == IF output.form = "string" THEN parseJsonSafe(output.text)
                     ELSE <<output.value>>
        IN  /\ (given # <<>> /\ ~Truthy(given[1].action) /\ ~Truthy(given[1].final_answer))
                => ~parseResult.success
            /\ (given # <<>> /\ ReActOutputSchema(given[1])
                    /\ Truthy(given[1].action) /\ Truthy(given[1].final_answer))
                => /\ parseResult.success
                   /\ parseResult.data[1].action = given[1].action
                   /\ parseResult.data[1].final_answer = "undefined"
            /\ parseResult.success
                => /\ given # <<>>
                   /\ ReActOutputSchema(given[1])
                   /\ Truthy(parseResult.data[1].action) # Truthy(parseResult.data[1].final_answer)
                   /\ (isAction(parseResult.data[1]) /\ isFinalAnswer(parseResult.data[1]))
                        <=> (given[1].action = "valid" /\ given[1].final_answer = "empty")

\* an action that came with an empty final_answer in a fenced JSON string: the
\* parse succeeded and the result holds both
C34_Witness ==
    /\ parserPc = "parsed"
    /\ output.form = "string"
    /\ Len(output.text) > 1
    /\ parseResult.success
    /\ isAction(parseResult.data[1])
    /\ isFinalAnswer(parseResult.data[1])

\* an output with an action and a non-empty final_answer: the action wins
C34_WitnessTie ==
    /\ parserPc = "parsed"
    /\ output.form = "value"
    /\ output.value.action = "valid"
    /\ output.value.final_answer = "text"
    /\ parseResult.success
    /\ isAction(parseResult.data[1])
    /\ ~isFinalAnswer(parseResult.data[1])


\* the done steps of a plan, in the order of plan.steps
C35_DoneSteps(p) == SelectSeq(p.steps, LAMBDA st : st.status = "done")

\* the history holds as many entries as there are done steps, and each pair of
\* a step id and a result occurs as often in the history as among the done steps
C35_Consistent(p) ==
    /\ Len(p.history) = Len(C35_DoneSteps(p))
    /\ \A k \in 1..Len(p.history) :
          Cardinality({ i \in 1..Len(p.history) : p.history[i] = p.history[k] })
            = Cardinality({ j \in 1..Len(C35_DoneSteps(p)) :
                               /\ C35_DoneSteps(p)[j].id = p.history[k].stepId
                               /\ C35_DoneSteps(p)[j].result = p.history[k].result })

\* C35: at every plan_update and at a successful return, plan.history holds
\* exactly one entry per done step, in completion order, each entry's result
\* equal to the result recorded on that step; entries are only appended, never
\* removed or changed, and done steps keep their result across replans.
C35_HistoryMatchesDoneSteps ==
    /\ [](/\ C35_Consistent(plan)
          /\ \A k \in 1..Len(plannerEvents) :
                plannerEvents[k].type = "plan_update"
                    => C35_Consistent(plannerEvents[k].plan)
          /\ (ppc = "returned" /\ plannerResult.success)
                => (plannerResult.plan = plan /\ C35_Consistent(plannerResult.plan)))
    /\ [][/\ Len(plan'.history) >= Len(plan.history)
          /\ SubSeq(plan'.history, 1, Len(plan.history)) = plan.history
          /\ Len(plan'.history) > Len(plan.history) =>
                /\ ppc = "executing"
                /\ plan'.history = Append(plan.history,
                                          [stepId |-> plan.steps[currentStep].id,
                                           result |-> result])
                /\ plan'.steps[currentStep].status = "done"
                /\ plan'.steps[currentStep].result = result
                /\ plannerEvents'[Len(plannerEvents')] = PlanUpdate(plan')
          /\ rePlanAttempts' # rePlanAttempts =>
                C35_DoneSteps(plan') = C35_DoneSteps(plan)]_vars

\* a successful run with a replan in which two steps were done, the second step
\* of the plan first
C35_Witness ==
    /\ ppc = "returned"
    /\ plannerResult.success
    /\ rePlanAttempts = 1
    /\ Len(plan.history) = 2
    /\ plan.history[1].stepId # C35_DoneSteps(plan)[1].id
    /\ plan.history[1].result # <<>>


\* the ids of the steps are pairwise distinct
C36_Distinct(steps) ==
    \A j, k \in 1..Len(steps) : steps[j].id = steps[k].id => j = k

\* the steps with the given id
C36_Resolve(steps, id) == { j \in 1..Len(steps) : steps[j].id = id }

\* C36: if the step ids of the initial plan are pairwise distinct, then in
\* every state of the run, after any number of replans, the ids of plan.steps
\* are pairwise distinct: no step of the run after the plan's generation makes
\* two steps share an id, and each history entry's stepId resolves to exactly
\* one step.
C36_StepIdsStayUnique ==
    [][(ppc # "constructed" /\ C36_Distinct(plan.steps)) =>
          /\ C36_Distinct(plan'.steps)
          /\ \A k \in 1..Len(plan'.history) :
                Cardinality(C36_Resolve(plan'.steps, plan'.history[k].stepId)) = 1]_vars

\* C36, as the code has it: the ids stay distinct in every step of the run but
\* a replan whose updated steps repeat an id among themselves or take the id of
\* a done step.
C36_OnlyAReplanRepeatsAnId ==
    [][(ppc # "constructed" /\ C36_Distinct(plan.steps) /\ ~C36_Distinct(plan'.steps)) =>
          /\ ppc = "refine"
          /\ rePlanAttempts' = rePlanAttempts + 1
          /\ \E k \in 1..Len(plan'.steps) :
                /\ plan'.steps[k].description[1] = "redo"
                /\ Cardinality(C36_Resolve(plan'.steps, plan'.steps[k].id)) > 1]_vars

\* the plan was generated with distinct ids, step a is done, and the replan
\* has added a pending step with the id a
C36_Witness ==
    /\ rePlanAttempts = 1
    /\ Len(plan.steps) = 2
    /\ plan.steps[1].id = "a"
    /\ plan.steps[1].status = "done"
    /\ plan.steps[1].description = <<"do", "a">>
    /\ plan.steps[2].id = "a"
    /\ plan.steps[2].status = "pending"
    /\ plan.steps[2].description = <<"redo", "a">>
    /\ Cardinality(C36_Resolve(plan.steps, plan.history[1].stepId)) = 2


\* ------------------------------------------------- an observer that throws

\* the handler returned for every event the step handed to it
ObserverReturns ==
    /\ \A k \in (Len(events) + 1)..Len(events') : events'[k].type \notin observer
    /\ \A k \in (Len(plannerEvents) + 1)..Len(plannerEvents') :
          plannerEvents'[k].type \notin observer

\* the handler throws at the final answer's final_result: the throw is inside
\* the loop body's try block
FinalAnswerObserverThrows ==
    /\ pc = "final_answer"
    /\ "final_result" \in observer
    /\ events' = emitEvent(events, FinalResultEvent(turn.answer, iteration))
    /\ turn' = [turn EXCEPT !.errorMessage = <<"observer_error">>]
    /\ pc' = TryCatch
    /\ UNCHANGED <<plannerVars, setup, now, iteration, completedIterations, messages,
                   iterationHistory, result, invocations, executions>>
    /\ UNCHANGED componentVars

\* the handler throws at the error event of a missing or failing tool: the
\* throw is inside the loop body's try block, the call gets no result
ExecuteObserverThrows ==
    /\ pc = "execute"
    /\ "error" \in observer
    /\ LET call == turn.tool_calls[turn.callIndex] IN
          IF ~ToolFound(tools, call.name)
          THEN LET observation ==
                      ToolNotFoundObservation(call.name, AllTools(tools), config.streaming)
               IN /\ turn' = [turn EXCEPT !.observation = observation, !.success = FALSE,
                                          !.errorMessage = <<"observer_error">>]
                  /\ events' = emitEvent(events, ErrorEvent(observation))
                  /\ UNCHANGED executions
          ELSE \E o \in ToolOutcomes(call.name) :
                  /\ o.throws
                  /\ executions' = Append(executions,
                                     [name |-> call.name, args |-> call.args,
                                      threw |-> TRUE])
                  /\ turn' = [turn EXCEPT
                                !.observation = ToolFailedObservation(o.text),
                                !.success = FALSE,
                                !.errorMessage = <<"observer_error">>]
                  /\ events' = emitEvent(events,
                                  ErrorEvent(ToolFailedObservation(o.text)))
    /\ pc' = TryCatch
    /\ UNCHANGED <<plannerVars, setup, now, iteration, completedIterations, messages,
                   iterationHistory, result, invocations>>
    /\ UNCHANGED componentVars

\* the handler throws at the error event of the catch block: nothing catches
\* the throw, run rejects
CatchObserverThrows ==
    /\ pc = "catch"
    /\ "error" \in observer
    /\ events' = emitEvent(events,
                    ErrorEvent(IterationFailedMessage(iteration, turn.errorMessage)))
    /\ pc' = "thrown"
    /\ UNCHANGED <<plannerVars, setup, now, iteration, completedIterations, messages,
                   iterationHistory, turn, result, invocations, executions>>
    /\ UNCHANGED componentVars

\* the handler throws at the fallback's final_result: nothing catches the
\* throw, run rejects
FallbackObserverThrows ==
    /\ pc = "fallback"
    /\ "final_result" \in observer
    /\ events' = emitEvent(events,
                    FinalResultEvent(FallbackAnswer(config.maxIterations, iterationHistory),
                                     completedIterations))
    /\ pc' = "thrown"
    /\ UNCHANGED <<plannerVars, setup, now, iteration, completedIterations, messages,
                   iterationHistory, turn, result, invocations, executions>>
    /\ UNCHANGED componentVars

\* executor.run rejected: the planner's try block catches the rejection
ExecutorRejects ==
    /\ ppc = "executing"
    /\ pc = "thrown"
    /\ plannerError' = <<"observer_error">>
    /\ ppc' = PlannerTryCatch
    /\ NoExecutor
    /\ UNCHANGED <<plannerConfig, plannerTools, plan, currentStep, rePlanAttempts,
                   plannerEvents, plannerResult>>
    /\ UNCHANGED componentVars

\* the handler throws at the error event of the planner's catch block: nothing
\* catches the throw, the planner's run rejects
PlannerCatchObserverThrows ==
    /\ ppc = "catch"
    /\ "error" \in observer
    /\ plannerEvents' = Append(plannerEvents,
                            ErrorEvent(<<"planner_failed:">> \o plannerError))
    /\ ppc' = "thrown"
    /\ UNCHANGED <<engineVars, plannerConfig, plannerTools, plan, currentStep,
                   rePlanAttempts, plannerError, plannerResult>>
    /\ UNCHANGED componentVars

\* a planner whose caller's onMessage throws when it is handed an error event,
\* a final_result event, or either
ObserverInit ==
    /\ PlannerConstructed
    /\ NoParser
    /\ NoCodingAgent
    /\ observer \in {{"error"}, {"final_result"}, {"error", "final_result"}}

\* a PlannerExecutor run, its executors' runs included, with such a caller
ObserverNext ==
    \/ GeneratePlan
    \/ GeneratePlanFails
    \/ NextStep
    \/ StartStep
    \/ ExecutorFails
    \/ ExecutorRejects
    \/ StepDone
    \/ RefinePlan
    \/ RefinePlanFails
    \/ FinalResponse
    \/ FinalResponseFails
    \/ (PlannerCatch /\ ObserverReturns)
    \/ PlannerCatchObserverThrows
    \/ Run
    \/ LoopTop
    \/ StreamOpen
    \/ StreamChunk
    \/ StreamEnd
    \/ (FinalAnswer /\ ObserverReturns)
    \/ FinalAnswerObserverThrows
    \/ ToolCall
    \/ (Execute /\ ObserverReturns)
    \/ ExecuteObserverThrows
    \/ ToolResult
    \/ DispatchDone
    \/ (Catch /\ ObserverReturns)
    \/ CatchObserverThrows
    \/ Guard
    \/ (Fallback /\ ObserverReturns)
    \/ FallbackObserverThrows

ObserverSpec == ObserverInit /\ [][ObserverNext]_vars

\* C37: a failure of the observer callback does not break the never-throws
\* contract: if onMessage throws while an event is delivered, at any point of a
\* run including while an error event or the final_result is being delivered,
\* the executor's run and the planner's run still resolve to a value instead
\* of rejecting.
C37_RunResolvesWhateverTheObserverDoes ==
    /\ pc # "thrown"
    /\ ppc # "thrown"

\* C37, as the code has it: a throw of the handler inside the loop body's try
\* block is caught; the executor's run rejects exactly when the handler throws
\* at the error event of the catch block or at the fallback's final_result,
\* and the planner's run exactly when the handler throws at the error event of
\* its catch block; a handler that fails at final_result only never makes the
\* planner's run reject.
C37_RunRejectsOnlyOutsideTheTryBlocks ==
    /\ [][(pc' = "thrown" /\ pc # "thrown") =>
             \/ pc = "catch" /\ "error" \in observer
             \/ pc = "fallback" /\ "final_result" \in observer]_vars
    /\ [][(pc = "final_answer" \/ pc = "execute") => pc' # "thrown"]_vars
    /\ [][(ppc' = "thrown" /\ ppc # "thrown") =>
             /\ ppc = "catch"
             /\ "error" \in observer]_vars
    /\ [](observer = {"final_result"} => ppc # "thrown")
    /\ [](ppc = "returned" /\ observer = {"final_result"} /\ plannerError = <<"observer_error">>
             => ~plannerResult.success)

\* the handler threw at the final answer's final_result, the catch block
\* reported it, and the handler threw again at the fallback's final_result: the
\* executor's run has rejected
C37_Witness ==
    /\ pc = "thrown"
    /\ observer = {"final_result"}
    /\ Len(events) >= 3
    /\ events[Len(events)].type = "final_result"
    /\ \E k \in 1..Len(events) : events[k].type = "error"

\* the executor's run rejected, the planner caught the rejection, and the
\* handler threw at the planner's error event: the planner's run has rejected
C37_WitnessPlanner ==
    /\ ppc = "thrown"
    /\ plannerError = <<"observer_error">>
    /\ plannerEvents[Len(plannerEvents)].type = "error"


\* ------------------------------------------------------------ CodingAgent

\* most calls the planner's run makes to the agent's callbacks in an explored run
MaxCallbacks == 3

\* the calls the planner's run makes: onMessage with a ReAct event, or
\* onPlanUpdate; a tool call names one of the three tools of the pipeline or
\* another tool, a tool result holds the JSON of BDD features, of architecture
\* files, of a code generation result, or text that is none of these
Callbacks ==
    { [type |-> t, detail |-> ""] : t \in {"thought", "final_result", "plan_update"} }
        \cup { [type |-> "tool_call", detail |-> n] :
                   n \in {"decompose_to_bdd", "design_architecture", "generate_code",
                          "weather"} }
        \cup { [type |-> "tool_call_result", detail |-> k] :
                   k \in {"bdd", "architecture", "code", "text"} }

\* the phase a tool or a result belongs to, "" for none
PhaseOf(detail) ==
    CASE detail \in {"decompose_to_bdd", "bdd"} -> "bdd"
      [] detail \in {"design_architecture", "architecture"} -> "architect"
      [] detail \in {"generate_code", "code"} -> "codegen"
      [] OTHER -> ""

\* the dedicated event of a result
GeneratedEvent(kind) ==
    CASE kind = "bdd" -> "bdd_generated"
      [] kind = "architecture" -> "architecture_generated"
      [] OTHER -> "code_generated"

\* the result is one extractAndStoreResults stores: it parses as JSON of one of
\* the three shapes and no result of its kind is stored yet
Stores(kind, stored) ==
    \/ kind = "bdd" /\ ~stored.bddFeatures
    \/ kind = "architecture" /\ ~stored.architecture
    \/ kind = "code" /\ ~stored.codeResult

Stored(kind, stored) ==
    CASE kind = "bdd" -> [stored EXCEPT !.bddFeatures = TRUE]
      [] kind = "architecture" -> [stored EXCEPT !.architecture = TRUE]
      [] OTHER -> [stored EXCEPT !.codeResult = TRUE]

\* an event as onProgress is handed it: its type, its phase, and the number of
\* the planner's call it comes from (0 for the agent's own events)
CodingAgentEvent(type, phase, from) == [type |-> type, phase |-> phase, from |-> from]

\* a CodingAgent is constructed and run has not been called
AgentInit ==
    /\ NoExecutorNoPlanner
    /\ NoParser
    /\ observer = {}
    /\ apc = "constructed"
    /\ callbacks = <<>>
    /\ progress = <<>>
    /\ inflight = 0
    /\ results = [bddFeatures |-> FALSE, architecture |-> FALSE, codeResult |-> FALSE]
    /\ extracting = <<>>
    /\ plannerOutcome = "none"
    /\ agentResult = <<>>

\* run is called: the tools are made and generateGreeting is awaited
AgentRun ==
    /\ apc = "constructed"
    /\ apc' = "greeting"
    /\ UNCHANGED <<engineVars, plannerVars, parserVars, observer, callbacks, progress,
                   inflight, results, extracting, plannerOutcome, agentResult>>

\* generateGreeting returns: the greeting is handed to onProgress
Greeting ==
    /\ apc = "greeting"
    /\ progress' = Append(progress, CodingAgentEvent("normal_message", "", 0))
    /\ inflight' = inflight + 1
    /\ apc' = "greeted"
    /\ UNCHANGED <<engineVars, plannerVars, parserVars, observer, callbacks, results,
                   extracting, plannerOutcome, agentResult>>

\* generateGreeting rejects: the catch block hands the error to onProgress
GreetingFails ==
    /\ apc = "greeting"
    /\ progress' = Append(progress, CodingAgentEvent("error", "", 0))
    /\ inflight' = inflight + 1
    /\ apc' = "failing"
    /\ UNCHANGED <<engineVars, plannerVars, parserVars, observer, callbacks, results,
                   extracting, plannerOutcome, agentResult>>

\* onProgress returns for the greeting: plannerExecutor.run is called
StartPlanner ==
    /\ apc = "greeted"
    /\ inflight' = inflight - 1
    /\ apc' = "planning"
    /\ UNCHANGED <<engineVars, plannerVars, parserVars, observer, callbacks, progress,
                   results, extracting, plannerOutcome, agentResult>>

\* the planner's run calls onMessage or onPlanUpdate: handleReActEvent up to
\* its first await; a final_result is not forwarded
handleReActEvent ==
    /\ apc = "planning"
    /\ plannerOutcome = "none"
    /\ Len(callbacks) < MaxCallbacks
    /\ \E event \in Callbacks :
          /\ callbacks' = Append(callbacks, event)
          /\ IF event.type = "final_result"
             THEN UNCHANGED <<progress, inflight, apc>>
             ELSE /\ inflight' = inflight + 1
                  /\ IF event.type = "tool_call" /\ PhaseOf(event.detail) # ""
                     THEN /\ progress' = Append(progress,
                                            CodingAgentEvent("phase_start", PhaseOf(event.detail),
                                                             Len(callbacks'))) 
                          /\ apc' = "phase_start"
                     ELSE /\ progress' = Append(progress,
                                            CodingAgentEvent(event.type, "", Len(callbacks')))
                          /\ apc' = IF event.type = "tool_call_result"
                                    THEN "forward_result" ELSE "forward"
    /\ UNCHANGED <<engineVars, plannerVars, parserVars, observer, results, extracting,
                   plannerOutcome, agentResult>>

\* the planner's run fails: its catch block calls onMessage with an error
\* event, which is forwarded
PlannerFails ==
    /\ apc = "planning"
    /\ plannerOutcome = "none"
    /\ plannerOutcome' = "failure"
    /\ callbacks' = Append(callbacks, [type |-> "error", detail |-> ""])
    /\ progress' = Append(progress, CodingAgentEvent("error", "", Len(callbacks')))
    /\ inflight' = inflight + 1
    /\ apc' = "forward"
    /\ UNCHANGED <<engineVars, plannerVars, parserVars, observer, results, extracting,
                   agentResult>>

\* onProgress returns for the phase_start of a tool call: the tool_call is
\* forwarded
PhaseStartReturns ==
    /\ apc = "phase_start"
    /\ progress' = Append(progress, CodingAgentEvent("tool_call", "", Len(callbacks)))
    /\ apc' = "forward"
    /\ UNCHANGED <<engineVars, plannerVars, parserVars, observer, callbacks, inflight,
                   results, extracting, plannerOutcome, agentResult>>

\* onProgress returns for a forwarded event: the callback returns to the planner
ForwardReturns ==
    /\ apc = "forward"
    /\ inflight' = inflight - 1
    /\ apc' = "planning"
    /\ UNCHANGED <<engineVars, plannerVars, parserVars, observer, callbacks, progress,
                   results, extracting, plannerOutcome, agentResult>>

\* onProgress returns for a forwarded tool_call_result: extractAndStoreResults
\* is called and not awaited; it runs up to its first await, which is the
\* dedicated event of a result it stores, and the callback returns to the
\* planner
ForwardedResultReturns ==
    /\ apc = "forward_result"
    /\ LET kind == callbacks[Len(callbacks)].detail IN
          IF Stores(kind, results)
          THEN /\ results' = Stored(kind, results)
               /\ progress' = Append(progress,
                                 CodingAgentEvent(GeneratedEvent(kind), PhaseOf(kind),
                                                  Len(callbacks)))
               /\ extracting' = Append(extracting,
                                   [pc |-> "generated", kind |-> kind,
                                    from |-> Len(callbacks)])
               /\ inflight' = inflight
          ELSE /\ inflight' = inflight - 1
               /\ UNCHANGED <<results, progress, extracting>>
    /\ apc' = "planning"
    /\ UNCHANGED <<engineVars, plannerVars, parserVars, observer, callbacks,
                   plannerOutcome, agentResult>>

\* onProgress returns for the dedicated event: extractAndStoreResults goes on
\* to the phase_complete event
ExtractContinues ==
    \E d \in 1..Len(extracting) :
       /\ extracting[d].pc = "generated"
       /\ progress' = Append(progress,
                         CodingAgentEvent("phase_complete", PhaseOf(extracting[d].kind),
                                          extracting[d].from))
       /\ extracting' = [extracting EXCEPT ![d].pc = "phase_complete"]
       /\ UNCHANGED <<engineVars, plannerVars, parserVars, observer, apc, callbacks,
                      inflight, results, plannerOutcome, agentResult>>

\* onProgress returns for the phase_complete event: extractAndStoreResults ends
ExtractEnds ==
    \E d \in 1..Len(extracting) :
       /\ extracting[d].pc = "phase_complete"
       /\ inflight' = inflight - 1
       /\ extracting' = [extracting EXCEPT ![d].pc = "done"]
       /\ UNCHANGED <<engineVars, plannerVars, parserVars, observer, apc, callbacks,
                      progress, results, plannerOutcome, agentResult>>

\* plannerExecutor.run resolves, with success or with failure: its value is
\* dropped and complete is handed to onProgress
PlannerReturns ==
    /\ apc = "planning"
    /\ plannerOutcome' = IF plannerOutcome = "failure" THEN "failure" ELSE "success"
    /\ progress' = Append(progress, CodingAgentEvent("complete", "", 0))
    /\ inflight' = inflight + 1
    /\ apc' = "completing"
    /\ UNCHANGED <<engineVars, plannerVars, parserVars, observer, callbacks, results,
                   extracting, agentResult>>

\* onProgress returns for complete: run returns the collected results
Completed ==
    /\ apc = "completing"
    /\ inflight' = inflight - 1
    /\ agentResult' = [success |-> TRUE, results |-> results]
    /\ apc' = "returned"
    /\ UNCHANGED <<engineVars, plannerVars, parserVars, observer, callbacks, progress,
                   results, extracting, plannerOutcome>>

\* onProgress returns for the catch block's error: run returns the failure
AgentCatch ==
    /\ apc = "failing"
    /\ inflight' = inflight - 1
    /\ agentResult' = [success |-> FALSE,
                       results |-> [bddFeatures |-> FALSE, architecture |-> FALSE,
                                    codeResult |-> FALSE]]
    /\ apc' = "returned"
    /\ UNCHANGED <<engineVars, plannerVars, parserVars, observer, callbacks, progress,
                   results, extracting, plannerOutcome>>

AgentNext ==
    \/ AgentRun
    \/ Greeting
    \/ GreetingFails
    \/ StartPlanner
    \/ handleReActEvent
    \/ PlannerFails
    \/ PhaseStartReturns
    \/ ForwardReturns
    \/ ForwardedResultReturns
    \/ ExtractContinues
    \/ ExtractEnds
    \/ PlannerReturns
    \/ Completed
    \/ AgentCatch

\* a CodingAgent run; the planner's run is taken by the calls it makes to the
\* agent's callbacks and by how it ends
AgentSpec == AgentInit /\ [][AgentNext]_vars

\* the types of the events handed to onProgress so far
C38_ProgressTypes == { progress[k].type : k \in 1..Len(progress) }

\* C38: whenever the underlying planner run ends in failure, CodingAgent.run
\* returns success=false and emits no complete event; it returns success=true
\* and emits complete only when the planner run succeeded.
C38_PlannerFailureIsReported ==
    /\ (apc = "returned" /\ plannerOutcome = "failure") => ~agentResult.success
    /\ plannerOutcome = "failure" => "complete" \notin C38_ProgressTypes
    /\ (apc = "returned" /\ agentResult.success) => plannerOutcome = "success"
    /\ "complete" \in C38_ProgressTypes => plannerOutcome = "success"

\* C38, as the code has it: run returns success=true, after complete, whenever
\* the planner's run resolved, with success or with failure; it returns
\* success=false only when the greeting failed, before the planner was called.
C38_SuccessMeansPlannerResolved ==
    /\ apc = "returned" =>
          /\ agentResult.success <=> plannerOutcome # "none"
          /\ agentResult.success <=> "complete" \in C38_ProgressTypes
          /\ ~agentResult.success => callbacks = <<>>
    /\ "complete" \in C38_ProgressTypes => plannerOutcome # "none"

\* the planner's run failed and reported its error, and run has returned
\* success=true after complete
C38_Witness ==
    /\ apc = "returned"
    /\ plannerOutcome = "failure"
    /\ agentResult.success
    /\ Len(progress) >= 3
    /\ progress[Len(progress) - 1].type = "error"
    /\ progress[Len(progress)].type = "complete"


\* the calls of extractAndStoreResults that have not ended
C39_Pending == { d \in 1..Len(extracting) : extracting[d].pc # "done" }

\* the events derived from a tool result
C39_Derived ==
    {"bdd_generated", "architecture_generated", "code_generated", "phase_complete"}

\* C39: event forwarding is serialized: the derived events of a tool result
\* (its dedicated event and phase_complete) are all delivered to onProgress
\* before the handling of that tool_call_result returns, hence before any later
\* ReAct event is forwarded, and at most one onProgress invocation is in flight
\* at any time.
C39_ForwardingIsSerialized ==
    /\ inflight <= 1
    /\ apc = "planning" => C39_Pending = {}
    /\ \A j, k \in 1..Len(progress) :
          (j < k /\ progress[j].from > 0 /\ progress[k].from > 0)
              => progress[j].from <= progress[k].from

\* C39, as the code has it: the events the callbacks forward themselves are
\* serialized, and the dedicated event of a result is handed over before the
\* handling of its tool_call_result returns; the call of extractAndStoreResults
\* goes on by itself after that, so there is one more invocation in flight for
\* each such call, and phase_complete follows its dedicated event at some
\* later point.
C39_OnlyTheCallbacksAreSerialized ==
    /\ inflight <= 1 + Cardinality(C39_Pending)
    /\ inflight >= Cardinality(C39_Pending)
    /\ \A j, k \in 1..Len(progress) :
          (/\ j < k
           /\ progress[j].type \notin C39_Derived
           /\ progress[k].type \notin C39_Derived
           /\ progress[j].from > 0
           /\ progress[k].from > 0)
              => progress[j].from <= progress[k].from
    /\ \A d \in 1..Len(extracting) :
          \E j \in 1..Len(progress) :
             /\ progress[j].type = GeneratedEvent(extracting[d].kind)
             /\ progress[j].from = extracting[d].from
             /\ \A k \in 1..Len(progress) :
                   progress[k].from > extracting[d].from => j < k
    /\ \A k \in 1..Len(progress) :
          progress[k].type = "phase_complete" =>
             \E j \in 1..(k - 1) :
                /\ progress[j].from = progress[k].from
                /\ progress[j].phase = progress[k].phase
                /\ progress[j].type \in C39_Derived \ {"phase_complete"}
    /\ \A j, k \in 1..Len(progress) :
          (progress[j].type = progress[k].type /\ progress[j].type \in C39_Derived
              /\ progress[j].phase = progress[k].phase) => j = k

\* the BDD result's dedicated event is still with onProgress when the next
\* tool call is forwarded: two invocations are in flight, and phase_complete
\* has not been sent
C39_Witness ==
    /\ inflight = 2
    /\ Len(callbacks) = 2
    /\ callbacks[1] = [type |-> "tool_call_result", detail |-> "bdd"]
    /\ callbacks[2].type = "tool_call"
    /\ progress[Len(progress)].from = 2
    /\ \A k \in 1..Len(progress) : progress[k].type # "phase_complete"

\* phase_complete of the first result is handed over after the events of the
\* planner's next call
C39_WitnessLate ==
    /\ Len(progress) >= 2
    /\ progress[Len(progress)].type = "phase_complete"
    /\ progress[Len(progress)].from = 1
    /\ progress[Len(progress) - 1].from = 2

====
